---- MODULE Spec2Model ----
(***************************************************************************)
(* Model of the GPU telemetry extraction core of nvtop:                    *)
(*   src/src/extract_gpuinfo.c         device registry, identity cache,    *)
(*                                     derivation fallback                 *)
(*   src/src/extract_gpuinfo_amdgpu.c  amdgpu backend: enumeration,        *)
(*                                     fdinfo parser, engine-usage cache   *)
(***************************************************************************)
EXTENDS Integers, Sequences, FiniteSets, TLC

VARIABLES
  pc,                    \* position of the modelled control flow
  now,                   \* monotonic clock (ns), read by nvtop_get_current_time
  gpu_infos,             \* static struct gpu_info_amdgpu *gpu_infos (registered devices)
  cached_process_info,   \* identity cache, previous generation
  updated_process_info,  \* identity cache, generation built in this cycle
  heap,                  \* addresses of the identity-cache entries that are allocated
  seen_prev,             \* history: the pids observed in the previous refresh cycle
  created,               \* history: the pids an entry was created for in this cycle
  reaped,                \* history: the pids an entry of which has been freed
  cursor,                \* next pid of the sweep, next device of the per-device loop
  call                   \* the last operation applied: its arguments, pre-state and result

identityVars ==
  <<cached_process_info, updated_process_info, heap, seen_prev, created, reaped, cursor>>

vars == <<pc, now, gpu_infos, cached_process_info, updated_process_info, heap, seen_prev,
          created, reaped, cursor, call>>

(***************************************************************************)
(* Bounds of the model                                                     *)
(***************************************************************************)
MaxLines == 3            \* longest fdinfo stream handed to the parser

(***************************************************************************)
(* Generic helpers                                                         *)
(***************************************************************************)
MYMIN(a, b) == IF a < b THEN a ELSE b

SeqsUpTo(S, n) == UNION {[1..k -> S] : k \in 0..n}

NoCall == [op |-> "none"]

(***************************************************************************)
(* struct gpu_process and its validity bits                                *)
(***************************************************************************)
ProcessFields ==
  {"gpu_usage", "encode_usage", "decode_usage", "gpu_memory_usage",
   "gfx_engine_used", "compute_engine_used", "enc_engine_used", "dec_engine_used",
   "cmdline", "user_name", "cpu_usage", "cpu_memory_res", "cpu_memory_virt",
   "gpu_memory_percentage"}

UsageFields == {"gpu_usage", "encode_usage", "decode_usage"}

EngineFields ==
  {"gfx_engine_used", "compute_engine_used", "enc_engine_used", "dec_engine_used"}

\* the record the sweep hands to the parser: zeroed, pid and type filled in
ZeroProcess(pid) ==
  [pid |-> pid, type |-> "unknown", valid |-> {},
   gpu_usage |-> 0, encode_usage |-> 0, decode_usage |-> 0, gpu_memory_usage |-> 0,
   gfx_engine_used |-> 0, compute_engine_used |-> 0,
   enc_engine_used |-> 0, dec_engine_used |-> 0,
   cmdline |-> "", user_name |-> "", cpu_usage |-> 0,
   cpu_memory_res |-> 0, cpu_memory_virt |-> 0, gpu_memory_percentage |-> 0]

SET_GPUINFO_PROCESS(p, field, v) ==
  [p EXCEPT ![field] = v, !.valid = @ \cup {field}]

GPUINFO_PROCESS_FIELD_VALID(p, field) == field \in p.valid

(***************************************************************************)
(* struct amdgpu_process_info_cache and the two uthash tables of a device. *)
(* A table is the sequence of its entries in insertion order: uthash does  *)
(* not reject an insertion under a key that is already present.           *)
(***************************************************************************)
NewCacheEntry(cid, pid) ==
  [client_id |-> [client_id |-> cid, pid |-> pid], valid |-> {},
   gfx_engine_used |-> 0, compute_engine_used |-> 0,
   enc_engine_used |-> 0, dec_engine_used |-> 0,
   last_measurement_tstamp |-> 0]

SET_AMDGPU_CACHE(e, field, v) ==
  [e EXCEPT ![field] = v, !.valid = @ \cup {field}]

AMDGPU_CACHE_FIELD_VALID(e, field) == field \in e.valid

\* The bytes of a struct unique_cache_id that the hash macros hash and
\* compare: keylen is sizeof(unsigned), and client_id is the first member of
\* the packed struct, so the pid is not part of the key.
HashKeyClient(ucid) == <<ucid.client_id>>

\* HASH_FIND_CLIENT: index of the matching entry, 0 when there is none.  A
\* bucket chain is searched from its head and insertions prepend to it, so
\* among entries with equal keys the one added last is found.
HASH_FIND_CLIENT(head, ucid) ==
  LET hits == {i \in 1..Len(head) :
                 HashKeyClient(head[i].client_id) = HashKeyClient(ucid)}
  IN  IF hits = {} THEN 0 ELSE CHOOSE i \in hits : \A j \in hits : j <= i

HASH_DEL(head, i) ==
  [k \in 1..(Len(head) - 1) |-> IF k < i THEN head[k] ELSE head[k + 1]]

HASH_ADD_CLIENT(head, e) == Append(head, e)

(***************************************************************************)
(* One line of an fdinfo stream.                                           *)
(*   name, idx : the key is the text name followed by idx                  *)
(*   num       : the number the leading digits of the value denote, NoNum  *)
(*               when the value does not start with a digit                *)
(*   rest      : the text of the value after the leading digits            *)
(* A device address value is held whole in rest (num = NoNum).             *)
(***************************************************************************)
NoNum == -1

Line(name, idx, num, rest) == [name |-> name, idx |-> idx, num |-> num, rest |-> rest]

pdev_old == "pdev"
pdev_new == "drm-pdev"
vram_old == "vram mem"
vram_new == "drm-memory-vram"
gfx_old == "gfx"
gfx_new == "drm-engine-gfx"
compute_old == "compute"
compute_new == "drm-engine-compute"
dec_old == "dec"
dec_new == "drm-engine-dec"
enc_old == "enc"
enc_new == "drm-engine-enc"
client_id == "drm-client-id"

\* extract_kv: a line without ':' or with an empty key or an empty value
\* yields no key/value pair
extract_kv(l) == l.name # "" /\ ~(l.num = NoNum /\ l.rest = "")

\* !strcmp(key, k): the whole key is k
KeyIs(l, k) == l.name = k /\ l.idx = ""

\* !strncmp(key, k, sizeof(k) - 1): the key starts with k
KeyStartsWith(l, k) == l.name = k

\* the index text of a legacy engine key is a number and only a number
IdxIsNumber(idx) == idx \in {"0", "1", "2"}

\* busy_usage_from_time_usage_round without the half of the divisor
busy_usage_from_time_usage_round_Truncates(current_use_ns, previous_use_ns, time_between_measurement) ==
  IF time_between_measurement = 0 THEN 0
  ELSE ((current_use_ns - previous_use_ns) * 100) \div time_between_measurement

\* A division by zero is undefined.  The quotient here is the one of a
\* divide instruction that does not trap; the trap is a step of the
\* specification that lets the clock stand still.
busy_usage_from_time_usage_round(current_use_ns, previous_use_ns, time_between_measurement) ==
  IF time_between_measurement = 0 THEN 0
  ELSE ((current_use_ns - previous_use_ns) * 100 + time_between_measurement \div 2)
         \div time_between_measurement

\* nvtop_difftime_u64(t0, t1): nanoseconds from t0 to t1
nvtop_difftime_u64(t0, t1) == t1 - t0

(***************************************************************************)
(* parse_drm_fdinfo_amd, the getline loop.  The loop state is the record   *)
(* being filled, client_id_set/cid, and whether the function has returned  *)
(* false from inside the loop.                                             *)
(***************************************************************************)
LoopStart(process_info) ==
  [process_info |-> process_info, client_id_set |-> FALSE, cid |-> 0, returned_false |-> FALSE]

\* the value texts with a decimal fraction that the lines of the model
\* carry after their leading digits: <<text, tenths, text after the number>>
DecimalTails == {<<".5%", 5, "%">>, <<".4%", 4, "%">>}

\* strtod(val, &endptr) on the value of line l: the number in tenths and the
\* text endptr is left on; converted is FALSE when endptr == val
strtod(l) ==
  IF l.num = NoNum THEN [converted |-> FALSE, tenths |-> 0, endptr |-> l.rest]
  ELSE IF \E t \in DecimalTails : t[1] = l.rest
    THEN LET t == CHOOSE t \in DecimalTails : t[1] = l.rest
         IN  [converted |-> TRUE, tenths |-> l.num * 10 + t[2], endptr |-> t[3]]
    ELSE [converted |-> TRUE, tenths |-> l.num * 10, endptr |-> l.rest]

\* round() of a non-negative number given in tenths: halves go up
round10(tenths) == (tenths + 5) \div 10

\* strtoul(val, &endptr, 10) on the value of line l: 0 when no digit leads
strtoul(l) == IF l.num = NoNum THEN 0 ELSE l.num

\* ParseLegacyLine that stores the value of the line instead of adding it
ParseLegacyLine_Overwrite(st, l) ==
  LET p == st.process_info
      v == strtod(l)
      n == round10(v.tenths)
  IN  IF l.idx = "" \/ ~IdxIsNumber(l.idx) THEN st
      ELSE IF ~v.converted \/ v.endptr # "%" THEN st
      ELSE IF KeyStartsWith(l, gfx_old) THEN
        [st EXCEPT !.process_info = SET_GPUINFO_PROCESS(p, "gpu_usage", n)]
      ELSE IF KeyStartsWith(l, compute_old) THEN
        [st EXCEPT !.process_info =
           SET_GPUINFO_PROCESS([p EXCEPT !.type = "compute"], "gpu_usage", n)]
      ELSE IF KeyStartsWith(l, dec_old) THEN
        [st EXCEPT !.process_info = SET_GPUINFO_PROCESS(p, "decode_usage", n)]
      ELSE
        [st EXCEPT !.process_info = SET_GPUINFO_PROCESS(p, "encode_usage", n)]

\* legacy keys: "<engine><index>: <percentage>%"
ParseLegacyLine(st, l) ==
  LET p == st.process_info
      v == strtod(l)
      n == round10(v.tenths)
  IN  IF l.idx = "" \/ ~IdxIsNumber(l.idx) THEN st
      ELSE IF ~v.converted \/ v.endptr # "%" THEN st
      ELSE IF KeyStartsWith(l, gfx_old) THEN
        [st EXCEPT !.process_info = SET_GPUINFO_PROCESS(p, "gpu_usage", p.gpu_usage + n)]
      ELSE IF KeyStartsWith(l, compute_old) THEN
        [st EXCEPT !.process_info =
           SET_GPUINFO_PROCESS([p EXCEPT !.type = "compute"], "gpu_usage", p.gpu_usage + n)]
      ELSE IF KeyStartsWith(l, dec_old) THEN
        [st EXCEPT !.process_info = SET_GPUINFO_PROCESS(p, "decode_usage", p.decode_usage + n)]
      ELSE
        [st EXCEPT !.process_info = SET_GPUINFO_PROCESS(p, "encode_usage", p.encode_usage + n)]

\* modern keys: "drm-engine-<engine>: <cumulative time> ns"
ParseEngineLine(st, l) ==
  LET p == st.process_info
      time_spent == l.num
  IN  IF l.num = NoNum \/ l.rest # " ns" THEN st
      ELSE IF KeyStartsWith(l, gfx_new) THEN
        [st EXCEPT !.process_info = SET_GPUINFO_PROCESS(p, "gfx_engine_used", time_spent)]
      ELSE IF KeyStartsWith(l, compute_new) THEN
        [st EXCEPT !.process_info =
           SET_GPUINFO_PROCESS([p EXCEPT !.type = "compute"], "compute_engine_used", time_spent)]
      ELSE IF KeyStartsWith(l, enc_new) THEN
        [st EXCEPT !.process_info = SET_GPUINFO_PROCESS(p, "enc_engine_used", time_spent)]
      ELSE
        [st EXCEPT !.process_info = SET_GPUINFO_PROCESS(p, "dec_engine_used", time_spent)]

\* ParseVramLine that stores the number of the line as it is
ParseVramLine_NoScale(st, l) ==
  LET mem_int == strtoul(l)
  IN  IF l.num = NoNum \/ (l.rest # " kB" /\ l.rest # " KiB") THEN st
      ELSE [st EXCEPT !.process_info =
              SET_GPUINFO_PROCESS(st.process_info, "gpu_memory_usage", mem_int)]

\* "vram mem" / "drm-memory-vram": <kibibytes> kB|KiB
ParseVramLine(st, l) ==
  LET mem_int == strtoul(l)
  IN  IF l.num = NoNum \/ (l.rest # " kB" /\ l.rest # " KiB") THEN st
      ELSE [st EXCEPT !.process_info =
              SET_GPUINFO_PROCESS(st.process_info, "gpu_memory_usage", mem_int * 1024)]

\* the client id branch without the test of the text after the number
ParseClientIdLine_AcceptsTrailingText(st, l) ==
  [st EXCEPT !.cid = strtoul(l), !.client_id_set = TRUE]

\* "drm-client-id": cid is assigned what strtoul converts before the test of
\* the text that follows the number
ParseClientIdLine(st, l) ==
  LET st1 == [st EXCEPT !.cid = strtoul(l)]
  IN  IF l.rest # "" THEN st1
      ELSE [st1 EXCEPT !.client_id_set = TRUE]

\* the body of the while loop for one line
ParseLine(gpu_info, st, l) ==
  IF ~extract_kv(l) THEN st
  ELSE IF KeyIs(l, pdev_old) \/ KeyIs(l, pdev_new) THEN
    IF ~(l.num = NoNum /\ l.rest = gpu_info.pdev)
      THEN [st EXCEPT !.returned_false = TRUE]
      ELSE st
  ELSE IF KeyIs(l, client_id) THEN
    ParseClientIdLine(st, l)
  ELSE IF KeyIs(l, vram_old) \/ KeyIs(l, vram_new) THEN
    ParseVramLine(st, l)
  ELSE IF KeyStartsWith(l, gfx_old) \/ KeyStartsWith(l, compute_old)
          \/ KeyStartsWith(l, dec_old) \/ KeyStartsWith(l, enc_old) THEN
    ParseLegacyLine(st, l)
  ELSE IF KeyStartsWith(l, gfx_new) \/ KeyStartsWith(l, compute_new)
          \/ KeyStartsWith(l, dec_new) \/ KeyStartsWith(l, enc_new) THEN
    ParseEngineLine(st, l)
  ELSE st

RECURSIVE ParseLoop(_, _, _, _)
ParseLoop(gpu_info, lines, i, st) ==
  IF i > Len(lines) \/ st.returned_false THEN st
  ELSE ParseLoop(gpu_info, lines, i + 1, ParseLine(gpu_info, st, lines[i]))

\* the state at the end of the while loop
ParseLines(gpu_info, lines, process_info) ==
  ParseLoop(gpu_info, lines, 1, LoopStart(process_info))

(***************************************************************************)
(* parse_drm_fdinfo_amd, the engine-usage cache stage after the loop.      *)
(***************************************************************************)
\* DeltaGate without the test that the counter did not decrease
DeltaGate_NoMonotone(process_info, cache_entry, counter, time_elapsed) ==
  /\ GPUINFO_PROCESS_FIELD_VALID(process_info, counter)
  /\ AMDGPU_CACHE_FIELD_VALID(cache_entry, counter)
  /\ process_info[counter] - cache_entry[counter] <= time_elapsed

\* DeltaGate without the test against the elapsed time
DeltaGate_NoElapsed(process_info, cache_entry, counter, time_elapsed) ==
  /\ GPUINFO_PROCESS_FIELD_VALID(process_info, counter)
  /\ AMDGPU_CACHE_FIELD_VALID(cache_entry, counter)
  /\ process_info[counter] >= cache_entry[counter]

\* DeltaGate without the test of the validity bit of the cached counter
DeltaGate_NoCacheValid(process_info, cache_entry, counter, time_elapsed) ==
  /\ GPUINFO_PROCESS_FIELD_VALID(process_info, counter)
  /\ process_info[counter] >= cache_entry[counter]
  /\ process_info[counter] - cache_entry[counter] <= time_elapsed

\* the four conditions under which a usage is derived from one counter
DeltaGate(process_info, cache_entry, counter, time_elapsed) ==
  /\ GPUINFO_PROCESS_FIELD_VALID(process_info, counter)
  /\ AMDGPU_CACHE_FIELD_VALID(cache_entry, counter)
  /\ process_info[counter] >= cache_entry[counter]
  /\ process_info[counter] - cache_entry[counter] <= time_elapsed

DeriveUsage(process_info, cache_entry, counter, usage, time_elapsed) ==
  IF DeltaGate(process_info, cache_entry, counter, time_elapsed)
    THEN SET_GPUINFO_PROCESS(process_info, usage,
           busy_usage_from_time_usage_round(process_info[counter], cache_entry[counter],
                                            time_elapsed))
    ELSE process_info

\* the repeat-key branch with the gfx block after the compute block
DeriveAll_GfxLast(process_info, cache_entry, time_elapsed) ==
  LET p1 == DeriveUsage(process_info, cache_entry, "compute_engine_used", "gpu_usage", time_elapsed)
      p2 == DeriveUsage(p1, cache_entry, "gfx_engine_used", "gpu_usage", time_elapsed)
      p3 == DeriveUsage(p2, cache_entry, "dec_engine_used", "decode_usage", time_elapsed)
  IN  DeriveUsage(p3, cache_entry, "enc_engine_used", "encode_usage", time_elapsed)

\* the repeat-key branch: gfx, compute, dec, enc in this order
DeriveAll(process_info, cache_entry, time_elapsed) ==
  LET p1 == DeriveUsage(process_info, cache_entry, "gfx_engine_used", "gpu_usage", time_elapsed)
      p2 == DeriveUsage(p1, cache_entry, "compute_engine_used", "gpu_usage", time_elapsed)
      p3 == DeriveUsage(p2, cache_entry, "dec_engine_used", "decode_usage", time_elapsed)
  IN  DeriveUsage(p3, cache_entry, "enc_engine_used", "encode_usage", time_elapsed)

\* StoreMeasurement that keeps the cached raw value of a counter that went down
StoreMeasurement_KeepsLarger(cache_entry, process_info, current_time) ==
  LET e0 == [cache_entry EXCEPT !.valid = {}]
      Put(e, f) == IF GPUINFO_PROCESS_FIELD_VALID(process_info, f)
                     THEN SET_AMDGPU_CACHE(e, f, IF cache_entry[f] > process_info[f]
                                                   THEN cache_entry[f] ELSE process_info[f])
                     ELSE e
      e4 == Put(Put(Put(Put(e0, "gfx_engine_used"), "compute_engine_used"),
                    "dec_engine_used"), "enc_engine_used")
  IN  [e4 EXCEPT !.last_measurement_tstamp = current_time]

\* "Store this measurement data"
StoreMeasurement(cache_entry, process_info, current_time) ==
  LET e0 == [cache_entry EXCEPT !.valid = {}]
      Put(e, f) == IF GPUINFO_PROCESS_FIELD_VALID(process_info, f)
                     THEN SET_AMDGPU_CACHE(e, f, process_info[f]) ELSE e
      e4 == Put(Put(Put(Put(e0, "gfx_engine_used"), "compute_engine_used"),
                    "dec_engine_used"), "enc_engine_used")
  IN  [e4 EXCEPT !.last_measurement_tstamp = current_time]

CacheStage(gpu_info, process_info, cid, current_time, calloc_ok) ==
  LET ucid == [client_id |-> cid, pid |-> process_info.pid]
      last == gpu_info.last_update_process_cache
      i == HASH_FIND_CLIENT(last, ucid)
  IN  IF i # 0 THEN
        LET cache_entry == last[i]
            time_elapsed == nvtop_difftime_u64(cache_entry.last_measurement_tstamp, current_time)
            p == DeriveAll(process_info, cache_entry, time_elapsed)
        IN  [ret |-> TRUE, process_info |-> p,
             assert_holds |->
               HASH_FIND_CLIENT(gpu_info.current_update_process_cache, ucid) = 0,
             gpu_info |->
               [gpu_info EXCEPT
                  !.last_update_process_cache = HASH_DEL(last, i),
                  !.current_update_process_cache =
                     HASH_ADD_CLIENT(@, StoreMeasurement(cache_entry, p, current_time))]]
      ELSE IF ~calloc_ok THEN
        [ret |-> TRUE, process_info |-> process_info, assert_holds |-> TRUE,
         gpu_info |-> gpu_info]
      ELSE
        [ret |-> TRUE, process_info |-> process_info,
         assert_holds |->
           HASH_FIND_CLIENT(gpu_info.current_update_process_cache, ucid) = 0,
         gpu_info |->
           [gpu_info EXCEPT
              !.cache_entries_live = @ + 1,
              !.current_update_process_cache =
                 HASH_ADD_CLIENT(@, StoreMeasurement(NewCacheEntry(cid, process_info.pid),
                                                     process_info, current_time))]]

\* parse_drm_fdinfo_amd that updates the cache for the client id it read
\* before it rejects the descriptor
parse_drm_fdinfo_amd_CachesRejected(gpu_info, lines, process_info, current_time, calloc_ok) ==
  LET st == ParseLines(gpu_info, lines, process_info)
  IN  IF st.client_id_set THEN
        [CacheStage(gpu_info, st.process_info, st.cid, current_time, calloc_ok)
           EXCEPT !.ret = ~st.returned_false]
      ELSE
        [ret |-> ~st.returned_false, process_info |-> st.process_info, assert_holds |-> TRUE,
         gpu_info |-> gpu_info]

\* parse_drm_fdinfo_amd(info, fdinfo_file, process_info): the return value,
\* the record and the device as the call leaves them
parse_drm_fdinfo_amd(gpu_info, lines, process_info, current_time, calloc_ok) ==
  LET st == ParseLines(gpu_info, lines, process_info)
  IN  IF st.returned_false THEN
        [ret |-> FALSE, process_info |-> st.process_info, assert_holds |-> TRUE,
         gpu_info |-> gpu_info]
      ELSE IF st.client_id_set THEN
        CacheStage(gpu_info, st.process_info, st.cid, current_time, calloc_ok)
      ELSE
        [ret |-> TRUE, process_info |-> st.process_info, assert_holds |-> TRUE,
         gpu_info |-> gpu_info]

\* swap_process_cache_for_next_update that frees nothing and keeps the old
\* entries in the previous generation
swap_process_cache_for_next_update_KeepsOld(gpu_info) ==
  [gpu_info EXCEPT !.last_update_process_cache = @ \o gpu_info.current_update_process_cache,
                   !.current_update_process_cache = <<>>]

\* swap_process_cache_for_next_update: free every entry left in the previous
\* generation, then last = current and current = NULL
swap_process_cache_for_next_update(gpu_info) ==
  [gpu_info EXCEPT !.cache_entries_live = @ - Len(gpu_info.last_update_process_cache),
                   !.last_update_process_cache = gpu_info.current_update_process_cache,
                   !.current_update_process_cache = <<>>]

(***************************************************************************)
(* struct gpuinfo_dynamic_info (the fields this model follows) and         *)
(* struct gpu_info_amdgpu                                                  *)
(***************************************************************************)
RateFields == {"gpu_util_rate", "encoder_rate", "decoder_rate"}

\* the fields gpuinfo_amdgpu_refresh_dynamic_info sets
SensorFields ==
  {"gpu_clock_speed", "gpu_clock_speed_max", "mem_clock_speed", "mem_clock_speed_max",
   "gpu_util_rate", "total_memory", "used_memory", "free_memory", "mem_util_rate",
   "gpu_temp", "fan_speed", "power_draw", "pcie_link_width", "pcie_link_gen",
   "pcie_rx", "pcie_tx", "power_draw_max"}

DynamicFields == RateFields \cup SensorFields

ZeroDynamicInfo ==
  [f \in DynamicFields \cup {"valid"} |-> IF f = "valid" THEN {} ELSE 0]

\* RESET_ALL that leaves the validity bits as they are
RESET_ALL_KeepsBits(valid) == valid

\* RESET_ALL(valid): clear every validity bit
RESET_ALL(valid) == {}

SET_GPUINFO_DYNAMIC(d, field, v) ==
  [d EXCEPT ![field] = v, !.valid = @ \cup {field}]

GPUINFO_DYNAMIC_FIELD_VALID(d, field) == field \in d.valid

\* a zeroed element of the calloc'ed gpu_infos array; fd is the index of the
\* discovered device the record was opened from, 0 when none;
\* maxFanValue is the full-scale reading of the fan sensor;
\* cache_entries_live counts the engine cache entries of the device that
\* calloc returned and free has not been given yet; sysfsFD and hwmonFD are
\* the directories the descriptors were opened on, "" when none; open is the
\* set of the fields of the record that hold a resource not yet released
ZeroGpuInfo ==
  [pdev |-> "", fd |-> 0, node |-> "", registered |-> FALSE,
   last_update_process_cache |-> <<>>, current_update_process_cache |-> <<>>,
   cache_entries_live |-> 0,
   sysfsFD |-> "", hwmonFD |-> "", open |-> {}, maxFanValue |-> 0,
   processes |-> <<>>, dynamic_info |-> ZeroDynamicInfo]

SysfsBase == "/sys/bus/pci/devices/"

\* initDeviceSysfsPaths: open /sys/bus/pci/devices/<pdev> and the hwmon
\* folder below it.  With an empty pdev the path is the folder of all PCI
\* devices, which opens and has no hwmon entry.
initDeviceSysfsPaths(gpu_info) ==
  IF gpu_info.pdev = ""
    THEN [gpu_info EXCEPT !.sysfsFD = SysfsBase, !.hwmonFD = "",
                          !.open = @ \cup {"sysfsFD"}]
    ELSE [gpu_info EXCEPT !.sysfsFD = SysfsBase \o gpu_info.pdev,
                          !.hwmonFD = SysfsBase \o gpu_info.pdev \o "/hwmon/hwmon0",
                          !.open = @ \cup {"sysfsFD", "hwmonFD"}]

\* gpuinfo_amdgpu_populate_static_info, the streams it keeps open: the fan
\* sensor and the power cap below hwmonFD, pp_dpm_pcie and pcie_bw below
\* the folder of the device
gpuinfo_amdgpu_populate_static_info(gpu_info) ==
  LET hwmon == IF gpu_info.hwmonFD # "" THEN {"fanSpeedFILE", "powerCap"} ELSE {}
      pcie == IF gpu_info.sysfsFD \notin {"", SysfsBase} THEN {"PCIeDPM", "PCIeBW"} ELSE {}
  IN  [gpu_info EXCEPT
         !.maxFanValue = IF gpu_info.hwmonFD # "" THEN 255 ELSE @,
         !.open = (@ \ {"fanSpeedFILE", "powerCap", "PCIeDPM", "PCIeBW"}) \cup hwmon \cup pcie]

\* pcieGenFromLinkSpeedAndWidth: the link speed in GT/s to a PCIe generation
pcieGenFromLinkSpeedAndWidth(linkSpeed) ==
  IF linkSpeed = 2 THEN 1
  ELSE IF linkSpeed = 5 THEN 2
  ELSE IF linkSpeed = 8 THEN 3
  ELSE IF linkSpeed = 16 THEN 4
  ELSE IF linkSpeed = 32 THEN 5
  ELSE IF linkSpeed = 64 THEN 6
  ELSE 0

\* SET_GPUINFO_DYNAMIC under the condition of the if statement around it
SetDynamicIf(cond, dynamic_info, f, v) ==
  IF cond THEN SET_GPUINFO_DYNAMIC(dynamic_info, f, v) ELSE dynamic_info

\* the block of AMDGPU_INFO_MEMORY: total, used, free and the rate of use
RefreshMemory(dynamic_info, memory) ==
  LET m1 == SET_GPUINFO_DYNAMIC(dynamic_info, "total_memory", memory.total_heap_size)
      m2 == SET_GPUINFO_DYNAMIC(m1, "used_memory", memory.heap_usage)
      m3 == SET_GPUINFO_DYNAMIC(m2, "free_memory", memory.usable_heap_size - m2.used_memory)
  IN  IF memory.status = 0
        THEN SET_GPUINFO_DYNAMIC(m3, "mem_util_rate",
               ((m3.total_memory - m3.free_memory) * 100) \div m3.total_memory)
        ELSE dynamic_info

\* the block of the pp_dpm_pcie stream: the link width, and the generation
\* when the link speed is a known one
RefreshPcieLink(dynamic_info, open, pcie_dpm) ==
  LET pcieGen == pcieGenFromLinkSpeedAndWidth(pcie_dpm.speed)
  IN  IF "PCIeDPM" \in open /\ pcie_dpm.found
        THEN SetDynamicIf(pcieGen # 0,
                          SET_GPUINFO_DYNAMIC(dynamic_info, "pcie_link_width", pcie_dpm.width),
                          "pcie_link_gen", pcieGen)
        ELSE dynamic_info

\* the block of the pcie_bw stream: received and transmitted bytes
RefreshPcieBw(dynamic_info, open, pcie_bw) ==
  IF "PCIeBW" \in open /\ pcie_bw.matched = 3
    THEN SET_GPUINFO_DYNAMIC(
           SET_GPUINFO_DYNAMIC(dynamic_info, "pcie_rx",
                               pcie_bw.received * pcie_bw.maxPayloadSize),
           "pcie_tx", pcie_bw.transmitted * pcie_bw.maxPayloadSize)
    ELSE dynamic_info

\* the first queries of the call: RESET_ALL, then the clocks and the load
RefreshClocks(dynamic_info, q) ==
  SetDynamicIf(q.load.status = 0,
    SetDynamicIf(q.gpu_info.status = 0,
      SetDynamicIf(q.mclk.status = 0,
        SetDynamicIf(q.gpu_info.status = 0,
          SetDynamicIf(q.sclk.status = 0,
            [dynamic_info EXCEPT !.valid = RESET_ALL(@)],
            "gpu_clock_speed", q.sclk.out32),
          "gpu_clock_speed_max", q.gpu_info.max_engine_clk \div 1000),
        "mem_clock_speed", q.mclk.out32),
      "mem_clock_speed_max", q.gpu_info.max_memory_clk \div 1000),
    "gpu_util_rate", q.load.out32)

\* the memory, the temperature, the fan and the power draw
RefreshSensors(dynamic_info, gpu_info, q) ==
  SetDynamicIf(q.power.status = 0,
    SetDynamicIf("fanSpeedFILE" \in gpu_info.open /\ q.fan.matched = 1,
      SetDynamicIf(q.temp.status = 0,
        RefreshMemory(dynamic_info, q.memory),
        "gpu_temp", q.temp.out32 \div 1000),
      "fan_speed", (q.fan.value * 100) \div gpu_info.maxFanValue),
    "power_draw", q.power.out32 * 1000)

\* gpuinfo_amdgpu_refresh_dynamic_info(device).  q is what the queries and
\* reads of the call return: status 0 is success for a libdrm query, matched
\* is the number of patterns a read of a sysfs stream matched.
gpuinfo_amdgpu_refresh_dynamic_info(gpu_info, q) ==
  [gpu_info EXCEPT
     !.dynamic_info =
        SetDynamicIf("powerCap" \in gpu_info.open /\ q.power_cap.matched = 1,
          RefreshPcieBw(
            RefreshPcieLink(
              RefreshSensors(RefreshClocks(@, q), gpu_info, q),
              gpu_info.open, q.pcie_dpm),
            gpu_info.open, q.pcie_bw),
          "power_draw_max", q.power_cap.value \div 1000)]

\* the body of the loop of gpuinfo_amdgpu_shutdown that does not free the
\* process cache
ShutdownDevice_KeepsCache(gpu_info) ==
  [gpu_info EXCEPT
     !.open = @ \ {"fanSpeedFILE", "PCIeDPM", "PCIeBW", "powerCap", "drmVersion",
                   "amdgpu_device"}]

\* the body of the loop of gpuinfo_amdgpu_shutdown for one device: fclose
\* the four streams that are not NULL, free the version, deinitialize the
\* device, free the entries of last_update_process_cache
ShutdownDevice(gpu_info) ==
  [gpu_info EXCEPT
     !.open = @ \ {"fanSpeedFILE", "PCIeDPM", "PCIeBW", "powerCap", "drmVersion",
                   "amdgpu_device"},
     !.cache_entries_live = @ - Len(gpu_info.last_update_process_cache),
     !.last_update_process_cache = <<>>]

\* gpuinfo_amdgpu_shutdown: the loop, then free(gpu_infos).  What the freed
\* records still held: engine cache entries and open resources.
gpuinfo_amdgpu_shutdown(devices) ==
  LET down == [i \in 1..Len(devices) |-> ShutdownDevice(devices[i])]
  IN  [gpu_infos |-> <<>>,
       cache_entries |-> [i \in 1..Len(devices) |->
                            [last |-> down[i].last_update_process_cache,
                             current |-> down[i].current_update_process_cache,
                             live |-> down[i].cache_entries_live]],
       left_open |-> UNION {{<<i, f>> : f \in down[i].open} : i \in 1..Len(devices)}]

(***************************************************************************)
(* Inputs of the parser specification                                      *)
(***************************************************************************)
Pids == {1, 2}

AddrA == "0000:01:00.0"
AddrB == "0000:02:00.0"

L_pdev(addr) == Line(pdev_new, "", NoNum, addr)
L_client(c) == Line(client_id, "", c, "")
L_vram(n) == Line(vram_new, "", n, " KiB")
L_gfx_old(n) == Line(gfx_old, "0", n, "%")
L_ns(key, n) == Line(key, "", n, " ns")

\* the lines the checked streams are made of
LineAlphabet ==
  {L_pdev(AddrA), L_pdev(AddrB), L_client(1), L_client(2), L_vram(2048), L_gfx_old(30),
   L_ns(gfx_new, 1500), L_ns(compute_new, 1500), L_ns(enc_new, 1500), L_ns(dec_new, 1500)}

Streams == SeqsUpTo(LineAlphabet, MaxLines)

\* a sequence of descriptors parsed one after the other for one device, each
\* into a freshly zeroed record
RECURSIVE ParseRun(_, _, _, _)
ParseRun(gpu_info, run, i, current_time) ==
  IF i > Len(run) THEN gpu_info
  ELSE ParseRun(parse_drm_fdinfo_amd(gpu_info, run[i].lines, ZeroProcess(run[i].pid),
                                     current_time, TRUE).gpu_info,
                run, i + 1, current_time)

Fd(pid, lines) == [pid |-> pid, lines |-> lines]

\* what pid 1 (and pid 2) reported in the previous cycle
PreviousCycleRuns ==
  { <<>>,
    <<Fd(1, <<L_client(1), L_ns(gfx_new, 900)>>)>>,
    <<Fd(1, <<L_client(1), L_ns(gfx_new, 2500), L_ns(compute_new, 1000)>>)>>,
    <<Fd(1, <<L_client(1), L_ns(gfx_new, 100), L_ns(compute_new, 900),
              L_ns(enc_new, 2500), L_ns(dec_new, 100)>>)>>,
    <<Fd(1, <<L_client(1), L_vram(1024)>>)>>,
    <<Fd(1, <<L_client(1), L_ns(gfx_new, 900)>>),
      Fd(2, <<L_client(2), L_ns(gfx_new, 900), L_ns(enc_new, 1000)>>)>> }

\* the two cycles before the checked call: what was parsed two cycles ago
\* and in the previous cycle.  In the last history the entry of client 1
\* keeps the raw counters of two cycles ago with their validity bits cleared.
ParseHistories ==
  {[older |-> <<>>, prev |-> prev] : prev \in PreviousCycleRuns}
    \cup {[older |-> <<Fd(1, <<L_client(1), L_ns(gfx_new, 900), L_ns(enc_new, 900)>>)>>,
           prev |-> <<Fd(1, <<L_client(1), L_vram(1024)>>)>>]}

\* what was already parsed in this cycle before the checked call
EarlierThisCycleRuns ==
  { <<>>, <<Fd(2, <<L_client(2), L_ns(gfx_new, 1200)>>)>> }

ParseDevice ==
  gpuinfo_amdgpu_populate_static_info(
    initDeviceSysfsPaths(
      [ZeroGpuInfo EXCEPT !.pdev = AddrA, !.fd = 1, !.node = "render", !.registered = TRUE,
                          !.open = {"fd", "drmVersion", "amdgpu_device"}]))

\* calloc is reached only for a client id that is not in the previous
\* generation: only then is its outcome an input of the call
ReachesCalloc(gpu_info, lines, pid) ==
  LET st == ParseLines(gpu_info, lines, ZeroProcess(pid))
  IN  /\ ~st.returned_false
      /\ st.client_id_set
      /\ HASH_FIND_CLIENT(gpu_info.last_update_process_cache,
                          [client_id |-> st.cid, pid |-> pid]) = 0

\* the identity cache and the cycle bookkeeping of a program between two cycles
IdentityIdle ==
  /\ cached_process_info = {}
  /\ updated_process_info = {}
  /\ heap = {}
  /\ seen_prev = {}
  /\ created = {}
  /\ reaped = {}
  /\ cursor = 0

ParseInit ==
  /\ IdentityIdle
  /\ pc = "parse"
  /\ now = 2000
  /\ \E h \in ParseHistories, cur \in EarlierThisCycleRuns :
       LET older == swap_process_cache_for_next_update(ParseRun(ParseDevice, h.older, 1, 0))
           prev == swap_process_cache_for_next_update(ParseRun(older, h.prev, 1, 1000))
       IN  gpu_infos = <<ParseRun(prev, cur, 1, 2000)>>
  /\ call = NoCall

\* the sweep hands one descriptor of process pid to the parser of device 1
ParseCall ==
  /\ pc = "parse"
  /\ \E pid \in Pids, lines \in Streams, calloc_ok \in BOOLEAN :
       /\ calloc_ok \/ ReachesCalloc(gpu_infos[1], lines, pid)
       /\ LET r == parse_drm_fdinfo_amd(gpu_infos[1], lines, ZeroProcess(pid), now, calloc_ok)
          IN  /\ gpu_infos' = <<r.gpu_info>>
              /\ call' = [op |-> "parse", pid |-> pid, lines |-> lines,
                          calloc_ok |-> calloc_ok, before |-> gpu_infos[1],
                          time |-> now, ret |-> r.ret, process_info |-> r.process_info,
                          assert_holds |-> r.assert_holds]
  /\ pc' = "parsed"
  /\ UNCHANGED <<now, identityVars>>

\* the counters of a call whose delta fails a gate: the key is a repeat key,
\* the counter is valid in the record and in the cached entry, and the new
\* sample is smaller than the cached one or larger by more than time_elapsed
SuppressedCounters(gpu_info, lines, pid, current_time) ==
  LET st == ParseLines(gpu_info, lines, ZeroProcess(pid))
      i == HASH_FIND_CLIENT(gpu_info.last_update_process_cache,
                            [client_id |-> st.cid, pid |-> pid])
  IN  IF st.returned_false \/ ~st.client_id_set \/ i = 0 THEN {}
      ELSE LET cache_entry == gpu_info.last_update_process_cache[i]
               time_elapsed == nvtop_difftime_u64(cache_entry.last_measurement_tstamp,
                                                  current_time)
           IN  {c \in EngineFields :
                  /\ GPUINFO_PROCESS_FIELD_VALID(st.process_info, c)
                  /\ AMDGPU_CACHE_FIELD_VALID(cache_entry, c)
                  /\ \/ st.process_info[c] < cache_entry[c]
                     \/ st.process_info[c] - cache_entry[c] > time_elapsed}

\* what client 1 reports one cycle after the checked call
FollowUpStreams == { <<L_client(1), L_ns(gfx_new, 2000)>> }

\* the cycle after the checked call: the device swaps its generations, and
\* one period later the sweep hands the next descriptor of the same process
\* to the parser
ParseFollowUp ==
  /\ pc = "parsed"
  /\ \E lines \in FollowUpStreams :
       LET swapped == swap_process_cache_for_next_update(gpu_infos[1])
           current_time == now + 1000
           r == parse_drm_fdinfo_amd(swapped, lines, ZeroProcess(call.pid), current_time, TRUE)
       IN  /\ gpu_infos' = <<r.gpu_info>>
           /\ now' = current_time
           /\ call' = [op |-> "parse_next", pid |-> call.pid, lines |-> lines,
                       before |-> swapped, time |-> current_time, ret |-> r.ret,
                       process_info |-> r.process_info,
                       first_time |-> call.time,
                       first_cid |-> ParseLines(call.before, call.lines,
                                                ZeroProcess(call.pid)).cid,
                       suppressed |-> SuppressedCounters(call.before, call.lines, call.pid,
                                                         call.time)]
  /\ pc' = "followed"
  /\ UNCHANGED identityVars

ParseNext == ParseCall \/ ParseFollowUp

ParseSpec == ParseInit /\ [][ParseNext]_vars

(***************************************************************************)
(* The parser call recorded in call, seen from the outside                 *)
(***************************************************************************)
IsParse == call.op = "parse"

\* the record, client id and rejection as the getline loop of the call left them
CallLoop == ParseLines(call.before, call.lines, ZeroProcess(call.pid))

\* the call went on to the cache stage
CallCached == IsParse /\ ~CallLoop.returned_false /\ CallLoop.client_id_set

\* the entry the code's lookup in the previous generation found, 0 for none
CallHit ==
  HASH_FIND_CLIENT(call.before.last_update_process_cache,
                   [client_id |-> CallLoop.cid, pid |-> call.pid])

RepeatKey == CallCached /\ CallHit # 0
FirstSeenKey == CallCached /\ CallHit = 0

CallEntry == call.before.last_update_process_cache[CallHit]
CallElapsed == call.time - CallEntry.last_measurement_tstamp

\* a stream line that names a device other than the one with address pdev
ForeignPdevLine(l, pdev) ==
  /\ l.name \in {pdev_old, pdev_new} /\ l.idx = ""
  /\ ~(l.num = NoNum /\ l.rest = "")
  /\ ~(l.num = NoNum /\ l.rest = pdev)

SameField(p, q, f) == (f \in p.valid <=> f \in q.valid) /\ p[f] = q[f]

\* which usage field each cumulative counter feeds
CounterUsage ==
  {<<"gfx_engine_used", "gpu_usage">>, <<"compute_engine_used", "gpu_usage">>,
   <<"dec_engine_used", "decode_usage">>, <<"enc_engine_used", "encode_usage">>}

\* counter c was observed in both cycles, did not decrease and grew by no
\* more than the elapsed time
WellBehaved(c) ==
  /\ c \in CallLoop.process_info.valid
  /\ c \in CallEntry.valid
  /\ CallLoop.process_info[c] >= CallEntry[c]
  /\ CallLoop.process_info[c] - CallEntry[c] <= CallElapsed

\* the usage field u of the result owes nothing to counter c: it is as the
\* stream's lines left it, or it is the percentage of another well-behaved
\* counter that feeds u
NotDerivedFrom(c, u) ==
  LET others == {d \in EngineFields : d # c /\ <<d, u>> \in CounterUsage /\ WellBehaved(d)}
  IN  IF others = {}
        THEN SameField(call.process_info, CallLoop.process_info, u)
        ELSE /\ u \in call.process_info.valid
             /\ \E d \in others :
                  LET scaled == (CallLoop.process_info[d] - CallEntry[d]) * 100
                                  + CallElapsed \div 2
                  IN  /\ call.process_info[u] * CallElapsed <= scaled
                      /\ scaled < (call.process_info[u] + 1) * CallElapsed

(***************************************************************************)
(* C3  Ownership rejection: when the parser reads a pdev/drm-pdev line     *)
(* whose value differs from the device's address it returns false and the  *)
(* passed-in record is exactly as it was before the call, whatever lines   *)
(* came earlier in the stream.                                             *)
(***************************************************************************)
C3_OwnershipRejectionCommitsNothing ==
  (IsParse /\ \E i \in 1..Len(call.lines) : ForeignPdevLine(call.lines[i], call.before.pdev))
    => (call.ret = FALSE /\ call.process_info = ZeroProcess(call.pid))

(***************************************************************************)
(* C4  The engine-usage cache is keyed by (client-id, pid): a parse for    *)
(* (c, p2) matches no entry stored under (c, p1) with p1 # p2, so when the *)
(* previous generation holds no entry for the very pair of the call, the   *)
(* call takes nothing out of the previous generation.                      *)
(***************************************************************************)
C4_CacheKeyedByClientAndPid ==
  (CallCached /\ call.ret
     /\ \A i \in 1..Len(call.before.last_update_process_cache) :
          call.before.last_update_process_cache[i].client_id
             # [client_id |-> CallLoop.cid, pid |-> call.pid])
    => gpu_infos[1].last_update_process_cache = call.before.last_update_process_cache

(***************************************************************************)
(* C5  Delta monotonicity gate: on a repeat key, a counter whose new       *)
(* sample is smaller than the cached value derives no usage percentage;    *)
(* the usage field it feeds is left as the stream's lines set it.          *)
(***************************************************************************)
C5_MonotonicityGate ==
  RepeatKey =>
    \A cu \in CounterUsage :
      (cu[1] \in CallLoop.process_info.valid
         /\ CallLoop.process_info[cu[1]] < CallEntry[cu[1]])
        => NotDerivedFrom(cu[1], cu[2])

\* a repeat key whose gfx counter went down from a valid cached value, and
\* the record's gpu usage stayed invalid
C5_Witness ==
  /\ RepeatKey
  /\ "gfx_engine_used" \in CallLoop.process_info.valid
  /\ "gfx_engine_used" \in CallEntry.valid
  /\ CallLoop.process_info.gfx_engine_used < CallEntry.gfx_engine_used
  /\ call.ret
  /\ "gpu_usage" \notin call.process_info.valid

(***************************************************************************)
(* C6  Larger-than-elapsed gate: on a repeat key, a counter that grew by   *)
(* more than the wall time elapsed since the cached timestamp derives no   *)
(* usage percentage.                                                       *)
(***************************************************************************)
C6_LargerThanElapsedGate ==
  RepeatKey =>
    \A cu \in CounterUsage :
      (cu[1] \in CallLoop.process_info.valid
         /\ CallLoop.process_info[cu[1]] >= CallEntry[cu[1]]
         /\ CallLoop.process_info[cu[1]] - CallEntry[cu[1]] > CallElapsed)
        => NotDerivedFrom(cu[1], cu[2])

\* a repeat key whose gfx counter grew by more than the elapsed time from a
\* valid cached value, and the record's gpu usage stayed invalid
C6_Witness ==
  /\ RepeatKey
  /\ "gfx_engine_used" \in CallLoop.process_info.valid
  /\ "gfx_engine_used" \in CallEntry.valid
  /\ CallLoop.process_info.gfx_engine_used - CallEntry.gfx_engine_used > CallElapsed
  /\ call.ret
  /\ "gpu_usage" \notin call.process_info.valid

\* the entry a first-seen key leaves in the current generation: the raw
\* counters of the record, stamped with the time of the call
BaselineStored ==
  /\ Len(gpu_infos[1].current_update_process_cache)
       = Len(call.before.current_update_process_cache) + 1
  /\ LET e == gpu_infos[1].current_update_process_cache[
                 Len(gpu_infos[1].current_update_process_cache)]
     IN  /\ e.client_id = [client_id |-> CallLoop.cid, pid |-> call.pid]
         /\ e.valid = call.process_info.valid \cap EngineFields
         /\ \A c \in e.valid : e[c] = call.process_info[c]
         /\ e.last_measurement_tstamp = call.time

(***************************************************************************)
(* C7  First-seen engine-cache key: a client id with no entry in the       *)
(* previous generation derives no usage field from the raw counters (the   *)
(* usage fields are as the stream's lines left them), and the raw counters *)
(* are stored with the current timestamp as the baseline in the current    *)
(* generation.                                                             *)
(***************************************************************************)
C7_FirstSeenStoresBaseline ==
  FirstSeenKey =>
    /\ call.ret
    /\ \A u \in UsageFields : SameField(call.process_info, CallLoop.process_info, u)
    /\ BaselineStored

\* C7 holds whenever the allocation of the new entry succeeds
C7_FirstSeenWhenAllocated ==
  (FirstSeenKey /\ call.calloc_ok) =>
    /\ call.ret
    /\ \A u \in UsageFields : SameField(call.process_info, CallLoop.process_info, u)
    /\ BaselineStored

(***************************************************************************)
(* gpuinfo_fix_dynamic_info_from_process_info                              *)
(***************************************************************************)
\* AccumulateRate that adds without clamping to 100
AccumulateRate_NoClamp(dynamic_info, need, process_info, rate, usage) ==
  IF need /\ GPUINFO_PROCESS_FIELD_VALID(process_info, usage) THEN
    IF GPUINFO_DYNAMIC_FIELD_VALID(dynamic_info, rate)
      THEN [dynamic_info EXCEPT ![rate] = dynamic_info[rate] + process_info[usage]]
      ELSE SET_GPUINFO_DYNAMIC(dynamic_info, rate, process_info[usage])
  ELSE dynamic_info

\* AccumulateRate that does not look at the need flag
AccumulateRate_IgnoreNeed(dynamic_info, need, process_info, rate, usage) ==
  IF GPUINFO_PROCESS_FIELD_VALID(process_info, usage) THEN
    IF GPUINFO_DYNAMIC_FIELD_VALID(dynamic_info, rate)
      THEN [dynamic_info EXCEPT ![rate] = MYMIN(100, dynamic_info[rate] + process_info[usage])]
      ELSE SET_GPUINFO_DYNAMIC(dynamic_info, rate, MYMIN(100, process_info[usage]))
  ELSE dynamic_info

\* one of the three if-blocks of the loop body over the processes
AccumulateRate(dynamic_info, need, process_info, rate, usage) ==
  IF need /\ GPUINFO_PROCESS_FIELD_VALID(process_info, usage) THEN
    IF GPUINFO_DYNAMIC_FIELD_VALID(dynamic_info, rate)
      THEN [dynamic_info EXCEPT ![rate] = MYMIN(100, dynamic_info[rate] + process_info[usage])]
      ELSE SET_GPUINFO_DYNAMIC(dynamic_info, rate, MYMIN(100, process_info[usage]))
  ELSE dynamic_info

RECURSIVE FixLoop(_, _, _, _, _, _)
FixLoop(dynamic_info, processes, processIdx, needGpuRate, needGpuEncode, needGpuDecode) ==
  IF processIdx > Len(processes) THEN dynamic_info
  ELSE
    LET process_info == processes[processIdx]
        d1 == AccumulateRate(dynamic_info, needGpuRate, process_info,
                             "gpu_util_rate", "gpu_usage")
        d2 == AccumulateRate(d1, needGpuEncode, process_info, "encoder_rate", "encode_usage")
        d3 == AccumulateRate(d2, needGpuDecode, process_info, "decoder_rate", "decode_usage")
    IN  FixLoop(d3, processes, processIdx + 1, needGpuRate, needGpuEncode, needGpuDecode)

\* the body of the loop over the devices
FixDevice(device) ==
  LET dynamic_info == device.dynamic_info
      needGpuRate == ~GPUINFO_DYNAMIC_FIELD_VALID(dynamic_info, "gpu_util_rate")
      needGpuEncode == ~GPUINFO_DYNAMIC_FIELD_VALID(dynamic_info, "encoder_rate")
      needGpuDecode == ~GPUINFO_DYNAMIC_FIELD_VALID(dynamic_info, "decoder_rate")
  IN  IF needGpuRate \/ needGpuEncode \/ needGpuDecode
        THEN [device EXCEPT !.dynamic_info =
                FixLoop(dynamic_info, device.processes, 1,
                        needGpuRate, needGpuEncode, needGpuDecode)]
        ELSE device

gpuinfo_fix_dynamic_info_from_process_info(devices) ==
  [i \in 1..Len(devices) |-> FixDevice(devices[i])]

(***************************************************************************)
(* Inputs of the derivation specification: the devices as a cycle leaves   *)
(* them before the fallback runs.  A rate the backend did not read in this *)
(* cycle has its validity bit cleared and keeps the value of an earlier    *)
(* cycle.                                                                  *)
(***************************************************************************)
MaxProcs == 3            \* most processes on one device

Absent == [valid |-> FALSE, value |-> 0]
Pct(n) == [valid |-> TRUE, value |-> n]

UsageProcess(pid, gpu, enc, dec) ==
  LET p0 == ZeroProcess(pid)
      p1 == IF gpu.valid THEN SET_GPUINFO_PROCESS(p0, "gpu_usage", gpu.value) ELSE p0
      p2 == IF enc.valid THEN SET_GPUINFO_PROCESS(p1, "encode_usage", enc.value) ELSE p1
  IN  IF dec.valid THEN SET_GPUINFO_PROCESS(p2, "decode_usage", dec.value) ELSE p2

\* the usage a process of the list may carry: <<gpu, encode, decode>>
FixUsagePool ==
  {<<Pct(10), Absent, Absent>>, <<Pct(25), Pct(40), Absent>>, <<Pct(40), Pct(40), Pct(60)>>,
   <<Absent, Absent, Absent>>, <<Absent, Absent, Pct(0)>>}

\* the process list of a device: the j-th process has pid j
FixProcesses(usages) ==
  [j \in 1..Len(usages) |-> UsageProcess(j, usages[j][1], usages[j][2], usages[j][3])]

\* a rate field before the fallback: read by the backend (valid), or not
\* read, with the value left by an earlier cycle
RateStates == {[valid |-> TRUE, value |-> 50], [valid |-> FALSE, value |-> 0],
               [valid |-> FALSE, value |-> 80]}

DynamicOf(g, e, d, mem) ==
  [ZeroDynamicInfo EXCEPT
     !.valid = {f \in DynamicFields :
                  \/ f = "gpu_util_rate" /\ g.valid
                  \/ f = "encoder_rate" /\ e.valid
                  \/ f = "decoder_rate" /\ d.valid
                  \/ f = "total_memory" /\ mem.valid},
     !.gpu_util_rate = g.value, !.encoder_rate = e.value, !.decoder_rate = d.value,
     !.total_memory = mem.value]

FixDynamicInfos ==
  {DynamicOf(g, e, d, mem) :
     g \in RateStates, e \in RateStates, d \in RateStates,
     mem \in {[valid |-> TRUE, value |-> 8192], [valid |-> FALSE, value |-> 0]}}

FixSecondDevices ==
  {[ZeroGpuInfo EXCEPT !.pdev = AddrB, !.fd = 2, !.node = "render", !.registered = TRUE],
   [ZeroGpuInfo EXCEPT !.pdev = AddrB, !.fd = 2, !.node = "render", !.registered = TRUE,
                       !.processes = <<UsageProcess(3, Pct(40), Pct(40), Pct(60)),
                                       UsageProcess(1, Pct(70), Pct(70), Pct(70))>>,
                       !.dynamic_info = DynamicOf([valid |-> FALSE, value |-> 80],
                                                  [valid |-> TRUE, value |-> 50],
                                                  [valid |-> FALSE, value |-> 0],
                                                  [valid |-> TRUE, value |-> 8192])]}

FixInit ==
  /\ IdentityIdle
  /\ pc = "fix"
  /\ now = 2000
  /\ \E dyn \in FixDynamicInfos, usages \in SeqsUpTo(FixUsagePool, MaxProcs),
        second \in FixSecondDevices :
       gpu_infos = <<[ParseDevice EXCEPT !.dynamic_info = dyn,
                                         !.processes = FixProcesses(usages)], second>>
  /\ call = NoCall

FixCall ==
  /\ pc = "fix"
  /\ gpu_infos' = gpuinfo_fix_dynamic_info_from_process_info(gpu_infos)
  /\ call' = [op |-> "fix", before |-> gpu_infos]
  /\ pc' = "fixed"
  /\ UNCHANGED <<now, identityVars>>

FixNext == FixCall

FixSpec == FixInit /\ [][FixNext]_vars

IsFix == call.op = "fix"

\* the sum of the valid values of a usage field over a process list
RECURSIVE SumValid(_, _)
SumValid(processes, usage) ==
  IF processes = <<>> THEN 0
  ELSE (IF usage \in Head(processes).valid THEN Head(processes)[usage] ELSE 0)
         + SumValid(Tail(processes), usage)

RateUsage ==
  {<<"gpu_util_rate", "gpu_usage">>, <<"encoder_rate", "encode_usage">>,
   <<"decoder_rate", "decode_usage">>}

(***************************************************************************)
(* C8  Derivation fallback: each of gpu_util_rate, encoder_rate and        *)
(* decoder_rate that is invalid on a device when the fallback runs becomes *)
(* min(100, sum of the valid per-process percentages of that device), and  *)
(* stays invalid when no process has a valid value for it.                 *)
(***************************************************************************)
C8_DerivationFallback ==
  IsFix =>
    \A i \in 1..Len(gpu_infos) : \A ru \in RateUsage :
      LET before == call.before[i]
          after == gpu_infos[i].dynamic_info
          total == SumValid(before.processes, ru[2])
      IN  ru[1] \notin before.dynamic_info.valid =>
            IF \E j \in 1..Len(before.processes) : ru[2] \in before.processes[j].valid
              THEN /\ ru[1] \in after.valid
                   /\ after[ru[1]] = (IF total > 100 THEN 100 ELSE total)
              ELSE ru[1] \notin after.valid

\* an invalid gpu_util_rate, three processes with 10, 25 and 40 percent, and
\* a derived rate of 75; on the other device 40 + 70 clamps to 100
C8_Witness ==
  /\ IsFix
  /\ "gpu_util_rate" \notin call.before[1].dynamic_info.valid
  /\ Len(call.before[1].processes) = 3
  /\ \A j \in 1..3 : "gpu_usage" \in call.before[1].processes[j].valid
  /\ SumValid(call.before[1].processes, "gpu_usage") = 75
  /\ gpu_infos[1].dynamic_info.gpu_util_rate = 75
  /\ "gpu_util_rate" \notin call.before[2].dynamic_info.valid
  /\ SumValid(call.before[2].processes, "gpu_usage") = 110
  /\ gpu_infos[2].dynamic_info.gpu_util_rate = 100

(***************************************************************************)
(* C9  Derivation frame: the fallback leaves unchanged every device-level  *)
(* rate field that was valid when it ran, and changes no other dynamic     *)
(* field.                                                                  *)
(***************************************************************************)
C9_DerivationFrame ==
  IsFix =>
    \A i \in 1..Len(gpu_infos) : \A f \in DynamicFields :
      (f \in RateFields /\ f \notin call.before[i].dynamic_info.valid)
        \/ SameField(gpu_infos[i].dynamic_info, call.before[i].dynamic_info, f)

\* a valid gpu_util_rate of 50 kept although the processes report gpu usage,
\* while the invalid encoder_rate of the same device was derived
C9_Witness ==
  /\ IsFix
  /\ "gpu_util_rate" \in call.before[1].dynamic_info.valid
  /\ SumValid(call.before[1].processes, "gpu_usage") > 0
  /\ gpu_infos[1].dynamic_info.gpu_util_rate = 50
  /\ "encoder_rate" \notin call.before[1].dynamic_info.valid
  /\ "encoder_rate" \in gpu_infos[1].dynamic_info.valid

(***************************************************************************)
(* gpuinfo_amdgpu_get_device_handles                                       *)
(***************************************************************************)
MaxDevs == 3             \* most devices drmGetDevices reports

HexDigit == <<"0", "1", "2", "3", "4", "5", "6", "7", "8", "9",
              "a", "b", "c", "d", "e", "f">>

Hex2(n) == HexDigit[((n \div 16) % 16) + 1] \o HexDigit[(n % 16) + 1]

\* snprintf(pdev, PDEV_LEN - 1, "%04x:%02x:%02x.%d", domain, bus, dev, func)
\* for a domain below 0x10000 and a function below 10: the text fits pdev
FormatPdev(pci) ==
  Hex2(pci.domain \div 256) \o Hex2(pci.domain % 256) \o ":" \o Hex2(pci.bus) \o ":"
    \o Hex2(pci.dev) \o "." \o HexDigit[pci.func + 1]

\* a device of the array drmGetDevices fills.  open_render / open_primary say
\* whether the node is available and open() succeeds on it.
DrmDevice(pci_amd, open_render, open_primary, version, init_status, bus) ==
  [pci_amd |-> pci_amd, open_render |-> open_render, open_primary |-> open_primary,
   version |-> version, init_status |-> init_status,
   businfo |-> [domain |-> 0, bus |-> bus, dev |-> 0, func |-> 0]]

\* the i-th discovered device sits on bus i
DeviceKinds(bus) ==
  {DrmDevice(TRUE, TRUE, TRUE, "amdgpu", 0, bus),
   DrmDevice(TRUE, FALSE, TRUE, "amdgpu", 0, bus),
   DrmDevice(FALSE, TRUE, TRUE, "i915", 0, bus),
   DrmDevice(TRUE, FALSE, FALSE, "amdgpu", 0, bus),
   DrmDevice(TRUE, TRUE, TRUE, "", 0, bus),
   DrmDevice(TRUE, TRUE, TRUE, "radeon", 0, bus),
   DrmDevice(TRUE, TRUE, TRUE, "amdgpu", 1, bus)}

DrmDeviceLists ==
  UNION {{devs \in [1..k -> UNION {DeviceKinds(b) : b \in 1..k}] :
            \A i \in 1..k : devs[i].businfo.bus = i} : k \in 0..MaxDevs}

SelectionMasks == {-1, 0, 1, 2, 3}

\* the local state of the for loop over devs
EnumStart(libdrm_count, count, mask) ==
  [gpu_infos |-> [i \in 1..libdrm_count |-> ZeroGpuInfo], amdgpu_count |-> 0,
   count |-> count, mask |-> mask, devices |-> <<>>, callbacks |-> <<>>]

\* RegisterDevice that does not register the fdinfo callback
RegisterDevice_NoCallback(st, i, dev, node) ==
  LET slot == st.amdgpu_count + 1
      g1 == [st.gpu_infos EXCEPT ![slot].fd = i, ![slot].node = node,
                                 ![slot].registered = TRUE,
                                 ![slot].open = {"fd", "drmVersion", "amdgpu_device"}]
      g2 == [g1 EXCEPT ![st.count + 1].pdev = FormatPdev(dev.businfo)]
      g3 == [g2 EXCEPT ![slot] = initDeviceSysfsPaths(g2[slot])]
  IN  [st EXCEPT !.gpu_infos = g3,
                 !.devices = Append(@, slot),
                 !.amdgpu_count = @ + 1]

\* the success branch of the loop body: record the device in gpu_infos.  C
\* arrays start at 0: element n of the C array is element n + 1 here.
RegisterDevice(st, i, dev, node) ==
  LET slot == st.amdgpu_count + 1
      g1 == [st.gpu_infos EXCEPT ![slot].fd = i, ![slot].node = node,
                                 ![slot].registered = TRUE,
                                 ![slot].open = {"fd", "drmVersion", "amdgpu_device"}]
      g2 == [g1 EXCEPT ![st.count + 1].pdev = FormatPdev(dev.businfo)]
      g3 == [g2 EXCEPT ![slot] = initDeviceSysfsPaths(g2[slot])]
  IN  [st EXCEPT !.gpu_infos = g3,
                 !.devices = Append(@, slot),
                 !.callbacks = Append(@, slot),
                 !.amdgpu_count = @ + 1]

\* the body of the for loop for devs[i]
EnumDevice(st, i, dev, libdrm_amdgpu_ok) ==
  LET node == IF dev.open_render THEN "render"
              ELSE IF dev.open_primary THEN "primary" ELSE ""
  IN  IF ~dev.pci_amd THEN st
      ELSE IF node = "" THEN st
      ELSE IF dev.version = "" THEN st
      ELSE IF dev.version # "amdgpu" THEN st
      ELSE IF st.mask % 2 = 0 THEN [st EXCEPT !.mask = st.mask \div 2]
      ELSE
        LET st1 == [st EXCEPT !.mask = st.mask \div 2]
        IN  IF ~libdrm_amdgpu_ok THEN st1
            ELSE IF dev.init_status = 0 THEN RegisterDevice(st1, i, dev, node)
            ELSE st1

RECURSIVE EnumLoop(_, _, _, _)
EnumLoop(st, devs, i, libdrm_amdgpu_ok) ==
  IF i > Len(devs) THEN st
  ELSE EnumLoop(EnumDevice(st, i, devs[i], libdrm_amdgpu_ok), devs, i + 1, libdrm_amdgpu_ok)

\* gpuinfo_amdgpu_get_device_handles(devices, count, mask) on a host whose
\* drmGetDevices reports devs; count and mask are the values the caller's
\* variables hold on entry
gpuinfo_amdgpu_get_device_handles(devs, count, mask, libdrm_ok, amdgpu_ok, calloc_ok) ==
  IF ~libdrm_ok \/ Len(devs) = 0 \/ ~calloc_ok
    THEN [ret |-> FALSE, gpu_infos |-> <<>>, amdgpu_count |-> 0, count |-> count,
          mask |-> mask, devices |-> <<>>, callbacks |-> <<>>]
    ELSE LET st == EnumLoop(EnumStart(Len(devs), count, mask), devs, 1, amdgpu_ok)
         IN  [ret |-> TRUE, gpu_infos |-> st.gpu_infos, amdgpu_count |-> st.amdgpu_count,
              count |-> st.amdgpu_count, mask |-> st.mask, devices |-> st.devices,
              callbacks |-> st.callbacks]

EnumInit ==
  /\ IdentityIdle
  /\ pc = "enum"
  /\ now = 0
  /\ gpu_infos = <<>>
  /\ call = NoCall

\* gpuinfo_init_info_extraction calls the vendor's get_device_handles with
\* vendor_devices_count = 0
EnumCall ==
  /\ pc = "enum"
  /\ \E devs \in DrmDeviceLists, mask \in SelectionMasks,
        libdrm_ok \in BOOLEAN, libdrm_amdgpu_ok \in BOOLEAN, calloc_ok \in BOOLEAN :
       LET r == gpuinfo_amdgpu_get_device_handles(devs, 0, mask, libdrm_ok, libdrm_amdgpu_ok,
                                                  calloc_ok)
       IN  /\ gpu_infos' = r.gpu_infos
           /\ call' = [op |-> "enum", devs |-> devs, mask_in |-> mask,
                       libdrm_ok |-> libdrm_ok, libdrm_amdgpu_ok |-> libdrm_amdgpu_ok,
                       calloc_ok |-> calloc_ok,
                       ret |-> r.ret, count |-> r.count, mask |-> r.mask,
                       devices |-> r.devices, callbacks |-> r.callbacks]
  /\ pc' = "enumerated"
  /\ UNCHANGED <<now, identityVars>>

EnumNext == EnumCall

EnumSpec == EnumInit /\ [][EnumNext]_vars

IsEnum == call.op = "enum"

(***************************************************************************)
(* C10  Device bus address recorded at discovery: after the enumeration    *)
(* registered k >= 1 devices, the pdev string of every registered device   *)
(* record is the PCI address of the hardware device the record was opened  *)
(* from.                                                                   *)
(***************************************************************************)
C10_PdevIsAddressOfOpenedDevice ==
  (IsEnum /\ call.ret) =>
    \A slot \in 1..call.count :
      gpu_infos[slot].pdev = FormatPdev(call.devs[gpu_infos[slot].fd].businfo)

\* m >> n on a ssize_t (arithmetic shift)
RECURSIVE Shr(_, _)
Shr(m, n) == IF n = 0 THEN m ELSE Shr(m \div 2, n - 1)

\* bit n of m, bit 0 the lowest
Bit(m, n) == Shr(m, n) % 2 = 1

(***************************************************************************)
(* C11  Selection mask consumption: the mask is shifted by one bit for     *)
(* every device of the discovered list, whether or not it passes the       *)
(* vendor filter, so bit i of the caller's mask decides the i-th           *)
(* discovered device: the mask left to the caller is the given one shifted *)
(* by the length of the list and a registered device has its own bit set.  *)
(***************************************************************************)
C11_MaskShiftedPerCandidate ==
  (IsEnum /\ call.ret) =>
    /\ call.mask = Shr(call.mask_in, Len(call.devs))
    /\ \A slot \in 1..call.count : Bit(call.mask_in, gpu_infos[slot].fd - 1)

\* the devices of the call that reach the mask test of the loop
ReachesMask(i) ==
  LET dev == call.devs[i]
  IN  dev.pci_amd /\ (dev.open_render \/ dev.open_primary) /\ dev.version = "amdgpu"

\* the bit of the caller's mask the loop tests for device i
MaskBitOf(i) == Cardinality({j \in 1..(i - 1) : ReachesMask(j)})

\* the mask as the code consumes it: one bit per device that reaches the test
C11_MaskShiftedPerTestedDevice ==
  (IsEnum /\ call.ret) =>
    /\ call.mask = Shr(call.mask_in, Cardinality({j \in 1..Len(call.devs) : ReachesMask(j)}))
    /\ \A slot \in 1..call.count : Bit(call.mask_in, MaskBitOf(gpu_infos[slot].fd))

\* the devices of the call that are included and open successfully
OpensSuccessfully(i) ==
  /\ ReachesMask(i)
  /\ Bit(call.mask_in, MaskBitOf(i))
  /\ call.libdrm_amdgpu_ok
  /\ call.devs[i].init_status = 0

(***************************************************************************)
(* C12  Enumeration skips failures without aborting: a device that fails   *)
(* a check is skipped and every device of the list that is included and    *)
(* opens successfully is appended to the device list in discovery order    *)
(* and registered with the fdinfo dispatch table; the returned count is    *)
(* the number of devices appended.                                         *)
(***************************************************************************)
C12_EnumerationSkipsFailures ==
  (IsEnum /\ call.ret) =>
    /\ call.count = Cardinality({i \in 1..Len(call.devs) : OpensSuccessfully(i)})
    /\ call.count = Len(call.devices)
    /\ call.devices = [s \in 1..call.count |-> s]
    /\ call.callbacks = call.devices
    /\ \A s \in 1..call.count :
         /\ gpu_infos[s].registered
         /\ OpensSuccessfully(gpu_infos[s].fd)
         /\ \A t \in 1..(s - 1) : gpu_infos[t].fd < gpu_infos[s].fd

\* a device fails a check and a later device of the list is registered
C12_Witness ==
  /\ IsEnum /\ call.ret
  /\ \E i, j \in 1..Len(call.devs) :
       /\ i < j
       /\ ~OpensSuccessfully(i)
       /\ OpensSuccessfully(j)
       /\ \E s \in 1..call.count : gpu_infos[s].fd = j

(***************************************************************************)
(* The identity cache: struct process_info_cache and the two uthash        *)
(* tables cached_process_info and updated_process_info.  An entry carries  *)
(* the address calloc returned for it; a table is the set of its entries.  *)
(***************************************************************************)
NULL == "<NULL>"

\* calloc: an address that is not allocated
Calloc(allocated) == CHOOSE a \in 1..(Cardinality(allocated) + 1) : a \notin allocated

\* HASH_FIND_PID: the entries of the table stored under the pid
HASH_FIND_PID(head, pid) == {e \in head : e.pid = pid}

\* round(100. * consumed / elapsed), the cast of the result to unsigned
\* included.  The cast of a negative value, or of the result of a division
\* by zero, is undefined: ub is what the build makes of it.
CpuUsagePercent(consumed, elapsed, ub) ==
  IF elapsed = 0 \/ consumed < 0 THEN ub
  ELSE (2 * 100 * consumed + elapsed) \div (2 * elapsed)

\* A float is m * 2^e with a significand m of 24 bits (2^23 <= m < 2^24),
\* or zero.
FloatBits == 24

FloatZero == [m |-> 0, e |-> 0]

\* the bits n has beyond the 24 of a significand
ExcessBits(n) ==
  CHOOSE s \in 0..8 : /\ n \div 2^s < 2^FloatBits
                      /\ s > 0 => n \div 2^(s - 1) >= 2^FloatBits

\* n * 2^e rounded to the nearest float, ties to the even significand
RECURSIVE FloatRound(_, _)
FloatRound(n, e) ==
  IF n = 0 THEN FloatZero
  ELSE IF n < 2^(FloatBits - 1) THEN FloatRound(2 * n, e - 1)
  ELSE LET s == ExcessBits(n)
           q == n \div 2^s
           r == n % 2^s
           up == 2 * r > 2^s \/ (2 * r = 2^s /\ q % 2 = 1)
           m == IF up THEN q + 1 ELSE q
       IN  IF m = 2^FloatBits THEN [m |-> 2^(FloatBits - 1), e |-> e + s + 1]
           ELSE [m |-> m, e |-> e + s]

\* (float)x of an unsigned integer
FloatOf(x) == FloatRound(x, 0)

\* k * f in float arithmetic, for a float constant k that is a small integer
FloatTimes(k, f) == FloatRound(k * f.m, f.e)

\* the quotient bits of r / d, one bit per step
RECURSIVE LongDivision(_, _, _, _)
LongDivision(r, d, bits, q) ==
  IF bits = 0 THEN [q |-> q, r |-> r]
  ELSE IF 2 * r >= d THEN LongDivision(2 * r - d, d, bits - 1, 2 * q + 1)
  ELSE LongDivision(2 * r, d, bits - 1, 2 * q)

\* a / b in float arithmetic, b not zero: 26 bits of the quotient of the
\* significands and one bit for what is left, rounded once
FloatDiv(a, b) ==
  IF a.m = 0 THEN FloatZero
  ELSE LET l == LongDivision(a.m % b.m, b.m, FloatBits + 1, a.m \div b.m)
           sticky == IF l.r = 0 THEN 0 ELSE 1
       IN  FloatRound(2 * l.q + sticky, a.e - b.e - FloatBits - 2)

\* roundf(f) of a float that is not negative: the nearest integer, halves
\* away from zero
roundf(f) ==
  IF f.m = 0 THEN 0
  ELSE IF f.e >= 0 THEN f.m * 2^f.e
  ELSE IF -f.e > FloatBits THEN 0
  ELSE LET d == 2^(-f.e)
       IN  IF 2 * (f.m % d) >= d THEN f.m \div d + 1 ELSE f.m \div d

\* (unsigned)roundf(100.f * (float)gpu_memory_usage / (float)total_memory).
\* The cast of the result of a division by zero is undefined: ub is what
\* the build makes of it.
MemoryPercent(gpu_memory_usage, total_memory, ub) ==
  IF total_memory = 0 THEN ub
  ELSE roundf(FloatDiv(FloatTimes(100, FloatOf(gpu_memory_usage)), FloatOf(total_memory)))

\* LookupEntry without the lookup in updated_process_info
LookupEntry_NoUpdatedLookup(st, current_pid, identity) ==
  LET in_cached == HASH_FIND_PID(st.cached, current_pid)
  IN  IF in_cached = {} THEN
        LET e == [addr |-> Calloc(st.heap), pid |-> current_pid,
                  user_name |-> identity.user_name, cmdline |-> identity.cmdline,
                  last_total_consumed_cpu_time |-> -1,
                  last_measurement_timestamp |-> 0]
        IN  [cached |-> st.cached, updated |-> st.updated \cup {e},
             heap |-> st.heap \cup {e.addr}, entry |-> e, made |-> TRUE]
      ELSE
        LET e == CHOOSE e \in in_cached : TRUE
        IN  [cached |-> st.cached \ {e}, updated |-> st.updated \cup {e},
             heap |-> st.heap, entry |-> e, made |-> FALSE]

\* LookupEntry that resolves the identity again for an entry it finds
LookupEntry_ResolvesAgain(st, current_pid, identity) ==
  LET in_cached == HASH_FIND_PID(st.cached, current_pid)
      in_updated == HASH_FIND_PID(st.updated, current_pid)
      again(e) == [e EXCEPT !.user_name = identity.user_name, !.cmdline = identity.cmdline]
  IN  IF in_cached = {} THEN
        IF in_updated = {} THEN
          LET e == [addr |-> Calloc(st.heap), pid |-> current_pid,
                    user_name |-> identity.user_name, cmdline |-> identity.cmdline,
                    last_total_consumed_cpu_time |-> -1,
                    last_measurement_timestamp |-> 0]
          IN  [cached |-> st.cached, updated |-> st.updated \cup {e},
               heap |-> st.heap \cup {e.addr}, entry |-> e, made |-> TRUE]
        ELSE LET e == CHOOSE e \in in_updated : TRUE
             IN  [cached |-> st.cached, updated |-> (st.updated \ {e}) \cup {again(e)},
                  heap |-> st.heap, entry |-> again(e), made |-> FALSE]
      ELSE
        LET e == CHOOSE e \in in_cached : TRUE
        IN  [cached |-> st.cached \ {e}, updated |-> st.updated \cup {again(e)},
             heap |-> st.heap, entry |-> again(e), made |-> FALSE]

\* the lookup of the loop body: cached_process_info first, then
\* updated_process_info, then a new entry.  Returns the tables, the entry
\* found or made and whether it was made.
LookupEntry(st, current_pid, identity) ==
  LET in_cached == HASH_FIND_PID(st.cached, current_pid)
      in_updated == HASH_FIND_PID(st.updated, current_pid)
  IN  IF in_cached = {} THEN
        IF in_updated = {} THEN
          LET e == [addr |-> Calloc(st.heap), pid |-> current_pid,
                    user_name |-> identity.user_name, cmdline |-> identity.cmdline,
                    last_total_consumed_cpu_time |-> -1,
                    last_measurement_timestamp |-> 0]
          IN  [cached |-> st.cached, updated |-> st.updated \cup {e},
               heap |-> st.heap \cup {e.addr}, entry |-> e, made |-> TRUE]
        ELSE [cached |-> st.cached, updated |-> st.updated, heap |-> st.heap,
              entry |-> CHOOSE e \in in_updated : TRUE, made |-> FALSE]
      ELSE
        LET e == CHOOSE e \in in_cached : TRUE
        IN  [cached |-> st.cached \ {e}, updated |-> st.updated \cup {e},
             heap |-> st.heap, entry |-> e, made |-> FALSE]

\* the body of the loop of gpuinfo_populate_process_info for processes[j].
\* inp: what get_username_from_pid / get_command_from_pid resolve, what
\* get_process_info samples, and the outcome of an undefined conversion.
PopulateProcess(st, dynamic_info, j, inp) ==
  LET p0 == st.processes[j]
      lk == LookupEntry(st, p0.pid, inp.identity)
      e == lk.entry
      p1 == IF e.cmdline # NULL THEN SET_GPUINFO_PROCESS(p0, "cmdline", e.cmdline) ELSE p0
      p2 == IF e.user_name # NULL THEN SET_GPUINFO_PROCESS(p1, "user_name", e.user_name)
            ELSE p1
      timestamp == inp.sample.timestamp
      p3 == IF inp.sample.ok THEN
              SET_GPUINFO_PROCESS(
                SET_GPUINFO_PROCESS(
                  SET_GPUINFO_PROCESS(p2, "cpu_usage",
                    IF e.last_total_consumed_cpu_time > -1
                      THEN CpuUsagePercent(inp.sample.total - e.last_total_consumed_cpu_time,
                                           timestamp - e.last_measurement_timestamp, inp.ub)
                      ELSE 0),
                  "cpu_memory_res", inp.sample.resident_memory),
                "cpu_memory_virt", inp.sample.virtual_memory)
            ELSE p2
      e1 == IF inp.sample.ok
              THEN [e EXCEPT !.last_measurement_timestamp = timestamp,
                             !.last_total_consumed_cpu_time = inp.sample.total]
              ELSE [e EXCEPT !.last_total_consumed_cpu_time = -1]
      p4 == IF GPUINFO_DYNAMIC_FIELD_VALID(dynamic_info, "total_memory")
               /\ GPUINFO_PROCESS_FIELD_VALID(p3, "gpu_memory_usage")
              THEN SET_GPUINFO_PROCESS(p3, "gpu_memory_percentage",
                     MemoryPercent(p3.gpu_memory_usage, dynamic_info.total_memory, inp.ub))
              ELSE p3
  IN  [cached |-> lk.cached,
       updated |-> (lk.updated \ {e}) \cup {e1},
       heap |-> lk.heap,
       created |-> IF lk.made THEN st.created \cup {p0.pid} ELSE st.created,
       processes |-> [st.processes EXCEPT ![j] = p4]]

RECURSIVE PopulateLoop(_, _, _, _)
PopulateLoop(st, dynamic_info, j, inputs) ==
  IF j > Len(st.processes) THEN st
  ELSE PopulateLoop(PopulateProcess(st, dynamic_info, j, inputs[j]), dynamic_info, j + 1, inputs)

\* gpuinfo_populate_process_info that swaps the generations for each device
gpuinfo_populate_process_info_SwapsPerDevice(device, cached, updated, allocated, made, inputs) ==
  LET st == PopulateLoop([cached |-> cached, updated |-> updated, heap |-> allocated,
                          created |-> made, processes |-> device.processes],
                         device.dynamic_info, 1, inputs)
  IN  [st EXCEPT !.cached = st.updated, !.updated = {},
                 !.heap = st.heap \ {e.addr : e \in st.cached}]

\* gpuinfo_populate_process_info(device)
gpuinfo_populate_process_info(device, cached, updated, allocated, made, inputs) ==
  PopulateLoop([cached |-> cached, updated |-> updated, heap |-> allocated,
                created |-> made, processes |-> device.processes],
               device.dynamic_info, 1, inputs)

\* gpuinfo_clean_old_cache that keeps the untouched entries
gpuinfo_clean_old_cache_KeepsOld(cached, updated, allocated) ==
  [cached |-> cached \cup updated, updated |-> {}, heap |-> allocated]

\* gpuinfo_clean_old_cache: free what is left in cached_process_info, then
\* cached_process_info = updated_process_info, updated_process_info = NULL
gpuinfo_clean_old_cache(cached, updated, allocated) ==
  [cached |-> updated, updated |-> {},
   heap |-> allocated \ {e.addr : e \in cached}]

(***************************************************************************)
(* The refresh cycle: gpuinfo_refresh_processes, called once per period of *)
(* the interface timer.                                                    *)
(***************************************************************************)
MaxCycles == 3           \* refresh cycles of one behaviour

\* the host of the cycle specification: two amdgpu devices, all selected
TwoGpuHost ==
  <<DrmDevice(TRUE, TRUE, TRUE, "amdgpu", 0, 1), DrmDevice(TRUE, TRUE, TRUE, "amdgpu", 0, 2)>>

\* the devices list after gpuinfo_init_info_extraction
RegisteredDevices(r) == [n \in 1..Len(r.devices) |-> r.gpu_infos[r.devices[n]]]

\* the descriptor a process holds in a cycle; the first one names no device
\* and is taken by the parser of every device
CycleStreams ==
  { <<L_client(1), L_ns(gfx_new, 1500)>>,
    <<L_pdev(AddrB), L_vram(2048), L_gfx_old(30)>> }

IdentityResolved == [user_name |-> "user", cmdline |-> "cmd"]

IdentityOutcomes == {IdentityResolved, [user_name |-> NULL, cmdline |-> NULL]}

\* what get_process_info reports at time t: no sample, or the cumulative CPU
\* time of the process
CpuSamples(t) ==
  {[ok |-> FALSE, total |-> 0, resident_memory |-> 0, virtual_memory |-> 0, timestamp |-> t],
   [ok |-> TRUE, total |-> 100, resident_memory |-> 10, virtual_memory |-> 20, timestamp |-> t],
   [ok |-> TRUE, total |-> 150, resident_memory |-> 10, virtual_memory |-> 20, timestamp |-> t]}

UbValues == {0, 2147483647}

\* The inputs of the loop body for a process with the given pid.  The
\* identity is resolved only for a pid without an entry, and the outcome of
\* an undefined conversion is an input only when the conversion is reached.
PopulateInputs(pid, cached, updated, t) ==
  LET known == HASH_FIND_PID(cached, pid) \cup HASH_FIND_PID(updated, pid)
  IN  {inp \in [identity : IdentityOutcomes, sample : CpuSamples(t), ub : UbValues] :
         /\ known # {} => inp.identity = IdentityResolved
         /\ inp.ub # 0 =>
              /\ inp.sample.ok
              /\ \E e \in known : /\ e.last_total_consumed_cpu_time > -1
                                  /\ inp.sample.total < e.last_total_consumed_cpu_time}

\* the pids on the process list of some device
Observed(devices) ==
  UNION {{devices[i].processes[j].pid : j \in 1..Len(devices[i].processes)} :
           i \in 1..Len(devices)}

\* gpuinfo_populate_static_infos
gpuinfo_populate_static_infos(devices) ==
  [i \in 1..Len(devices) |-> gpuinfo_amdgpu_populate_static_info(devices[i])]

\* gpuinfo_init_info_extraction, then gpuinfo_populate_static_infos
Init ==
  /\ pc = "idle"
  /\ now = 0
  /\ gpu_infos = gpuinfo_populate_static_infos(
                   RegisteredDevices(
                     gpuinfo_amdgpu_get_device_handles(TwoGpuHost, 0, -1, TRUE, TRUE, TRUE)))
  /\ IdentityIdle
  /\ call = NoCall

\* gpuinfo_refresh_processes, first loop: processes_count = 0 on every device
RefreshStart ==
  /\ pc = "idle"
  /\ now \div 1000 < MaxCycles
  /\ now' = ((now \div 1000) + 1) * 1000
  /\ seen_prev' = Observed(gpu_infos)
  /\ created' = {}
  /\ gpu_infos' = [i \in 1..Len(gpu_infos) |-> [gpu_infos[i] EXCEPT !.processes = <<>>]]
  /\ pc' = "sweep"
  /\ cursor' = 1
  /\ call' = NoCall
  /\ UNCHANGED <<cached_process_info, updated_process_info, heap, reaped>>

\* one registered callback of the sweep: the parser of the device fills a
\* freshly zeroed record, which joins the process list when the parser
\* returns true
Dispatch(gpu_info, pid, lines, current_time) ==
  LET r == parse_drm_fdinfo_amd(gpu_info, lines, ZeroProcess(pid), current_time, TRUE)
  IN  IF r.ret
        THEN [r.gpu_info EXCEPT !.processes = Append(@, r.process_info)]
        ELSE r.gpu_info

\* processinfo_sweep_fdinfos, one process of /proc: it holds no GPU
\* descriptor, or one descriptor that every registered callback is given
SweepPid ==
  /\ pc = "sweep"
  /\ \/ UNCHANGED gpu_infos
     \/ \E lines \in CycleStreams :
          gpu_infos' = [i \in 1..Len(gpu_infos) |-> Dispatch(gpu_infos[i], cursor, lines, now)]
  /\ IF cursor + 1 \in Pids
       THEN pc' = "sweep" /\ cursor' = cursor + 1
       ELSE pc' = "devices" /\ cursor' = 1
  /\ UNCHANGED <<now, cached_process_info, updated_process_info, heap, seen_prev, created,
                 reaped, call>>

\* gpuinfo_refresh_processes, the body of the second loop for one device:
\* refresh_running_processes, then gpuinfo_populate_process_info.  The
\* samples of the n-th device are taken at the time of the cycle plus n: a
\* pid on two devices is sampled twice, the second time a moment later.
PopulateDevice ==
  /\ pc = "devices"
  /\ LET device == swap_process_cache_for_next_update(gpu_infos[cursor])
     IN  \E inputs \in [1..Len(device.processes) ->
                          UNION {PopulateInputs(p, cached_process_info, updated_process_info,
                                                now + cursor) : p \in Pids}] :
           /\ \A j \in 1..Len(device.processes) :
                inputs[j] \in PopulateInputs(device.processes[j].pid, cached_process_info,
                                             updated_process_info, now + cursor)
           /\ LET st == gpuinfo_populate_process_info(device, cached_process_info,
                          updated_process_info, heap, created, inputs)
              IN  /\ gpu_infos' = [gpu_infos EXCEPT
                                     ![cursor] = [device EXCEPT !.processes = st.processes]]
                  /\ cached_process_info' = st.cached
                  /\ updated_process_info' = st.updated
                  /\ heap' = st.heap
                  /\ created' = st.created
  /\ IF cursor < Len(gpu_infos)
       THEN pc' = "devices" /\ cursor' = cursor + 1
       ELSE pc' = "clean" /\ cursor' = 0
  /\ call' = [op |-> "swap", device |-> cursor,
              last |-> gpu_infos[cursor].last_update_process_cache,
              current |-> gpu_infos[cursor].current_update_process_cache,
              live |-> gpu_infos[cursor].cache_entries_live]
  /\ UNCHANGED <<now, seen_prev, reaped>>

\* gpuinfo_refresh_processes, the last statement, and the return
CleanOldCache ==
  /\ pc = "clean"
  /\ LET st == gpuinfo_clean_old_cache(cached_process_info, updated_process_info, heap)
     IN  /\ cached_process_info' = st.cached
         /\ updated_process_info' = st.updated
         /\ heap' = st.heap
         /\ reaped' = reaped \cup {e.pid : e \in cached_process_info}
  /\ pc' = "idle"
  /\ UNCHANGED <<now, gpu_infos, seen_prev, created, cursor, call>>

\* gpuinfo_clear_cache: free every entry of cached_process_info
gpuinfo_clear_cache(cached, allocated) ==
  [cached |-> {}, heap |-> allocated \ {e.addr : e \in cached}]

\* gpuinfo_shutdown_info_extraction, called when the interface loop ends:
\* the devices leave the list, the vendor shuts down, the identity cache is
\* cleared
Shutdown ==
  /\ pc = "idle"
  /\ LET vendor == gpuinfo_amdgpu_shutdown(gpu_infos)
         cleared == gpuinfo_clear_cache(cached_process_info, heap)
     IN  /\ gpu_infos' = vendor.gpu_infos
         /\ cached_process_info' = cleared.cached
         /\ heap' = cleared.heap
         /\ call' = [op |-> "shutdown", devices |-> gpu_infos,
                     cached |-> cached_process_info,
                     cache_entries |-> vendor.cache_entries,
                     left_open |-> vendor.left_open]
  /\ pc' = "shutdown"
  /\ UNCHANGED <<now, updated_process_info, seen_prev, created, reaped, cursor>>

Next == RefreshStart \/ SweepPid \/ PopulateDevice \/ CleanOldCache \/ Shutdown

Spec == Init /\ [][Next]_vars

(***************************************************************************)
(* C1  Single-owner identity cache: in every reachable state each pid has  *)
(* at most one entry in cached_process_info and updated_process_info       *)
(* together, also when the pid is on the process list of several devices.  *)
(***************************************************************************)
C1_SingleOwner ==
  \A pid \in Pids :
    Cardinality(HASH_FIND_PID(cached_process_info, pid))
      + Cardinality(HASH_FIND_PID(updated_process_info, pid)) <= 1

\* both devices were enriched in a cycle in which pid 1 is on the list of
\* both, its entry came from the previous cycle, and it has moved to the
\* current generation
C1_Witness ==
  /\ pc = "clean"
  /\ \A i \in 1..Len(gpu_infos) :
       \E j \in 1..Len(gpu_infos[i].processes) : gpu_infos[i].processes[j].pid = 1
  /\ 1 \in seen_prev
  /\ 1 \notin created
  /\ HASH_FIND_PID(cached_process_info, 1) = {}
  /\ Cardinality(HASH_FIND_PID(updated_process_info, 1)) = 1

(***************************************************************************)
(* C2  Reap-on-absence: when gpuinfo_refresh_processes returns, a pid that *)
(* was observed in the previous cycle and on no device in this one has no  *)
(* entry in either generation and its entry has been freed (nothing is     *)
(* allocated but the entries of cached_process_info); a pid observed in    *)
(* this cycle and not in the previous one got a newly created entry.       *)
(***************************************************************************)
C2_ReapOnAbsence ==
  pc = "idle" =>
    /\ \A pid \in seen_prev \ Observed(gpu_infos) :
         /\ HASH_FIND_PID(cached_process_info, pid) = {}
         /\ HASH_FIND_PID(updated_process_info, pid) = {}
    /\ heap = {e.addr : e \in cached_process_info}
    /\ \A pid \in Observed(gpu_infos) \ seen_prev :
         /\ pid \in created
         /\ HASH_FIND_PID(cached_process_info, pid) # {}

\* the refresh returned from a cycle in which pid 1, observed in the cycle
\* before, was on no device, and in which pid 2 came back after its earlier
\* entry had been freed
C2_Witness ==
  /\ pc = "idle"
  /\ 1 \in seen_prev \ Observed(gpu_infos)
  /\ 1 \in reaped
  /\ HASH_FIND_PID(cached_process_info, 1) = {}
  /\ 2 \in Observed(gpu_infos) \ seen_prev
  /\ 2 \in reaped
  /\ 2 \in created

(***************************************************************************)
(* C13  Engine-cache generation swap: after refresh_running_processes for  *)
(* a device the previous generation holds exactly the entries the parser   *)
(* stored for that device in this cycle, the working generation is empty   *)
(* and every entry left untouched in the old previous generation has been  *)
(* freed: the entries of the previous generation are all that is allocated.*)
(***************************************************************************)
IsSwap == call.op = "swap"

C13_GenerationSwap ==
  IsSwap =>
    LET gpu_info == gpu_infos[call.device]
    IN  /\ gpu_info.last_update_process_cache = call.current
        /\ gpu_info.current_update_process_cache = <<>>
        /\ \A n \in 1..Len(gpu_info.last_update_process_cache) :
             gpu_info.last_update_process_cache[n].last_measurement_tstamp = now
        /\ gpu_info.cache_entries_live = Len(gpu_info.last_update_process_cache)
        /\ gpu_info.cache_entries_live = call.live - Len(call.last)

\* a swap that promoted an entry stored in this cycle and freed an entry of
\* an earlier cycle that no parse of this cycle touched
C13_Witness ==
  /\ IsSwap
  /\ call.last # <<>>
  /\ call.current # <<>>
  /\ gpu_infos[call.device].last_update_process_cache = call.current

(***************************************************************************)
(* Two devices, one parser call: the callback registered for a device is   *)
(* given the base of its own gpu_info_amdgpu record.                       *)
(***************************************************************************)
\* container_of that finds the caches of the first device whatever the record
container_of_FirstDeviceCaches(devices, d) ==
  [devices[d] EXCEPT
     !.last_update_process_cache = devices[1].last_update_process_cache,
     !.current_update_process_cache = devices[1].current_update_process_cache]

\* container_of(info, struct gpu_info_amdgpu, base): the record of the device
\* whose base the callback was registered with
container_of(devices, d) == devices[d]

\* what client 1 of pid 1 reported to a device in the previous cycle
ScopePreviousRuns ==
  { <<>>,
    <<Fd(1, <<L_client(1), L_ns(gfx_new, 900)>>)>>,
    <<Fd(1, <<L_client(1), L_ns(gfx_new, 1400)>>)>> }

ScopeStreams == SeqsUpTo({L_client(1), L_ns(gfx_new, 1500), L_pdev(AddrB)}, MaxLines)

ScopeInit ==
  /\ IdentityIdle
  /\ pc = "scope"
  /\ now = 2000
  /\ \E prev \in [1..2 -> ScopePreviousRuns] :
       LET devices == RegisteredDevices(
                        gpuinfo_amdgpu_get_device_handles(TwoGpuHost, 0, -1, TRUE, TRUE, TRUE))
       IN  gpu_infos = [d \in 1..2 |->
                          swap_process_cache_for_next_update(
                            ParseRun(devices[d], prev[d], 1, 1000))]
  /\ call = NoCall

\* the sweep hands one descriptor of process pid to the callback of device d
ScopeParse ==
  /\ pc = "scope"
  /\ \E d \in 1..Len(gpu_infos), pid \in Pids, lines \in ScopeStreams :
       LET r == parse_drm_fdinfo_amd(container_of(gpu_infos, d), lines, ZeroProcess(pid),
                                     now, TRUE)
       IN  /\ gpu_infos' = [gpu_infos EXCEPT ![d] = r.gpu_info]
           /\ call' = [op |-> "parse_on", device |-> d, pid |-> pid, lines |-> lines,
                       before |-> gpu_infos, time |-> now, ret |-> r.ret,
                       process_info |-> r.process_info]
  /\ pc' = "scoped"
  /\ UNCHANGED <<now, identityVars>>

ScopeNext == ScopeParse

ScopeSpec == ScopeInit /\ [][ScopeNext]_vars

IsParseOn == call.op = "parse_on"

\* the getline loop of the call, and the entry of the device's own previous
\* generation stored under the client id of the stream (0 for none)
ScopeLoop == ParseLines(call.before[call.device], call.lines, ZeroProcess(call.pid))

ScopeOwnHit ==
  HASH_FIND_CLIENT(call.before[call.device].last_update_process_cache,
                   [client_id |-> ScopeLoop.cid, pid |-> call.pid])

ScopeCached == IsParseOn /\ ~ScopeLoop.returned_false /\ ScopeLoop.client_id_set

(***************************************************************************)
(* C14  Engine-usage caches are scoped per device: a parse for device A    *)
(* reads and modifies only the two generations of A.  The baseline of a    *)
(* derived usage is the entry of A's own previous generation (none there:  *)
(* no usage, whatever the other device holds for the same client id), the  *)
(* entry moves within A, and the record of the other device is unchanged.  *)
(***************************************************************************)
C14_CachesScopedPerDevice ==
  IsParseOn =>
    LET own == call.before[call.device]
        after == gpu_infos[call.device]
    IN  /\ \A o \in 1..Len(gpu_infos) : o # call.device => gpu_infos[o] = call.before[o]
        /\ ~ScopeCached =>
              /\ after = own
              /\ "gpu_usage" \notin call.process_info.valid
        /\ (ScopeCached /\ ScopeOwnHit = 0) =>
              /\ "gpu_usage" \notin call.process_info.valid
              /\ after.last_update_process_cache = own.last_update_process_cache
              /\ Len(after.current_update_process_cache)
                    = Len(own.current_update_process_cache) + 1
        /\ (ScopeCached /\ ScopeOwnHit # 0) =>
              LET e == own.last_update_process_cache[ScopeOwnHit]
              IN  /\ after.last_update_process_cache
                        = HASH_DEL(own.last_update_process_cache, ScopeOwnHit)
                  /\ Len(after.current_update_process_cache)
                        = Len(own.current_update_process_cache) + 1
                  /\ "gfx_engine_used" \in ScopeLoop.process_info.valid =>
                        /\ "gpu_usage" \in call.process_info.valid
                        /\ call.process_info.gpu_usage
                              = busy_usage_from_time_usage_round(
                                  ScopeLoop.process_info.gfx_engine_used, e.gfx_engine_used,
                                  call.time - e.last_measurement_tstamp)

\* both devices hold an entry for client 1 with different baselines, and a
\* parse for the second device derived a usage
C14_Witness ==
  /\ IsParseOn
  /\ call.device = 2
  /\ ScopeCached /\ ScopeOwnHit # 0
  /\ "gpu_usage" \in call.process_info.valid
  /\ call.before[1].last_update_process_cache # <<>>
  /\ call.before[1].last_update_process_cache[1].gfx_engine_used
       # call.before[2].last_update_process_cache[1].gfx_engine_used

(***************************************************************************)
(* gpuinfo_populate_process_info for the two devices of one cycle, from    *)
(* the identity caches an earlier cycle can leave                          *)
(***************************************************************************)
\* an entry of the identity cache as an earlier cycle left it
PopEntry(pid, total, timestamp) ==
  [addr |-> pid, pid |-> pid, user_name |-> "user", cmdline |-> "cmd",
   last_total_consumed_cpu_time |-> total, last_measurement_timestamp |-> timestamp]

\* pid 1: no entry, an entry whose last sample failed, or one sampled at 100
\* or at 150; pid 2: no entry or one sampled at 100
PopCaches ==
  {c1 \cup c2 : c1 \in {{}, {PopEntry(1, -1, 1001)}, {PopEntry(1, 100, 1001)},
                         {PopEntry(1, 150, 1001)}},
                c2 \in {{}, {PopEntry(2, 100, 1001)}}}

\* the record of a process as the sweep left it on a device
SweptProcess(pid) == SET_GPUINFO_PROCESS(ZeroProcess(pid), "gpu_memory_usage", 2097152)

\* a process whose descriptor reports drm-memory-vram: 697303 KiB
LargeProcess(pid) == SET_GPUINFO_PROCESS(ZeroProcess(pid), "gpu_memory_usage", 697303 * 1024)

\* the lists of a device: records with a memory usage, and one of a
\* descriptor without drm-memory-vram line
PopProcessLists ==
  { <<>>, <<SweptProcess(1)>>, <<SweptProcess(1), SweptProcess(2)>>, <<LargeProcess(1)>>,
    <<ZeroProcess(2)>> }

\* no memory query answered, or a device of 8 MiB or of 1 GiB
PopDynamicInfos ==
  {ZeroDynamicInfo, SET_GPUINFO_DYNAMIC(ZeroDynamicInfo, "total_memory", 8388608),
   SET_GPUINFO_DYNAMIC(ZeroDynamicInfo, "total_memory", 1073741824)}

PopulateInit ==
  /\ pc = "populate"
  /\ now = 2000
  /\ cursor = 1
  /\ cached_process_info \in PopCaches
  /\ updated_process_info = {}
  /\ heap = {e.addr : e \in cached_process_info}
  /\ seen_prev = {e.pid : e \in cached_process_info}
  /\ created = {}
  /\ reaped = {}
  /\ \E lists \in [1..2 -> PopProcessLists], dynamic_info \in PopDynamicInfos :
       LET devices == RegisteredDevices(
                        gpuinfo_amdgpu_get_device_handles(TwoGpuHost, 0, -1, TRUE, TRUE, TRUE))
       IN  gpu_infos = [d \in 1..2 |-> [devices[d] EXCEPT !.processes = lists[d],
                                                         !.dynamic_info = dynamic_info]]
  /\ call = NoCall

\* gpuinfo_populate_process_info(device) for the device at cursor
PopulateCall ==
  /\ pc = "populate"
  /\ LET device == gpu_infos[cursor]
     IN  \E inputs \in [1..Len(device.processes) ->
                          UNION {PopulateInputs(p, cached_process_info, updated_process_info,
                                                now + cursor) : p \in Pids}] :
           /\ \A j \in 1..Len(device.processes) :
                inputs[j] \in PopulateInputs(device.processes[j].pid, cached_process_info,
                                             updated_process_info, now + cursor)
           /\ LET st == gpuinfo_populate_process_info(device, cached_process_info,
                          updated_process_info, heap, created, inputs)
              IN  /\ gpu_infos' = [gpu_infos EXCEPT
                                     ![cursor] = [device EXCEPT !.processes = st.processes]]
                  /\ cached_process_info' = st.cached
                  /\ updated_process_info' = st.updated
                  /\ heap' = st.heap
                  /\ created' = st.created
                  /\ call' = [op |-> "populate", device |-> cursor, inputs |-> inputs,
                              cached |-> cached_process_info,
                              updated |-> updated_process_info,
                              processes |-> device.processes]
  /\ IF cursor < Len(gpu_infos)
       THEN pc' = "populate" /\ cursor' = cursor + 1
       ELSE pc' = "populated" /\ cursor' = 0
  /\ UNCHANGED <<now, seen_prev, reaped>>

PopulateNext == PopulateCall

PopulateSpec == PopulateInit /\ [][PopulateNext]_vars

IsPopulate == call.op = "populate"

\* the entries the call found for the pid of its j-th process
KnownBefore(j) ==
  HASH_FIND_PID(call.cached, call.processes[j].pid)
    \cup HASH_FIND_PID(call.updated, call.processes[j].pid)

\* the j-th record of the device the call enriched
Enriched(j) == gpu_infos[call.device].processes[j]

\* the call found an entry of the j-th pid whose sentinel is valid
ValidSentinelBefore(j) == \E e \in KnownBefore(j) : e.last_total_consumed_cpu_time > -1

\* what one call of gpuinfo_populate_process_info does with the sentinel: a
\* CPU% is reported exactly when a sample is obtained, it is 0 unless the
\* entry the call found has a valid sentinel, and a sample that cannot be
\* read leaves the entry with an invalid sentinel
C15_SentinelPerCall ==
  IsPopulate =>
    \A j \in 1..Len(call.processes) :
      /\ "cpu_usage" \in Enriched(j).valid <=> call.inputs[j].sample.ok
      /\ (call.inputs[j].sample.ok /\ ~ValidSentinelBefore(j)) => Enriched(j).cpu_usage = 0
      /\ ~call.inputs[j].sample.ok =>
            \A e \in HASH_FIND_PID(updated_process_info, Enriched(j).pid) :
              e.last_total_consumed_cpu_time = -1

(***************************************************************************)
(* C15  CPU% baseline: a CPU% comes from a delta only when a sample is     *)
(* obtained now and the sentinel of the cached entry is valid; an entry    *)
(* created in this cycle reports CPU% = 0 wherever the cycle reports a     *)
(* CPU% for its pid; a sample that cannot be read leaves the sentinel      *)
(* invalid, so that the next sampled cycle starts from 0.                  *)
(***************************************************************************)
C15_CpuBaseline ==
  /\ C15_SentinelPerCall
  /\ \A d \in 1..Len(gpu_infos) : \A j \in 1..Len(gpu_infos[d].processes) :
       LET p == gpu_infos[d].processes[j]
       IN  (p.pid \in created /\ "cpu_usage" \in p.valid) => p.cpu_usage = 0

(***************************************************************************)
(* C16  Counter monotonicity for the identity cache: when the fresh        *)
(* cumulative CPU time of a pid is smaller than the cached                 *)
(* last_total_consumed_cpu_time, the CPU% delta is suppressed: no value    *)
(* other than 0 is reported.                                               *)
(***************************************************************************)
C16_DecreasingCpuSampleSuppressed ==
  IsPopulate =>
    \A j \in 1..Len(call.processes) :
      ( /\ call.inputs[j].sample.ok
        /\ \E e \in KnownBefore(j) :
             /\ e.last_total_consumed_cpu_time > -1
             /\ call.inputs[j].sample.total < e.last_total_consumed_cpu_time )
      => ("cpu_usage" \in Enriched(j).valid => Enriched(j).cpu_usage = 0)

(***************************************************************************)
(* C17  Engine delta needs both observations: on a repeat key a usage is   *)
(* derived from a counter only if the counter is valid in the record and   *)
(* its validity bit is set in the cached entry; a counter whose bit is     *)
(* unset derives nothing, whatever raw value the entry still holds.        *)
(***************************************************************************)
C17_DeltaNeedsBothObservations ==
  RepeatKey =>
    \A cu \in CounterUsage :
      (cu[1] \notin CallLoop.process_info.valid \/ cu[1] \notin CallEntry.valid)
        => NotDerivedFrom(cu[1], cu[2])

\* a repeat key whose cached entry holds a raw gfx value of two cycles ago
\* with the bit unset; the new sample is larger by less than the elapsed
\* time, and no gpu usage was derived
C17_Witness ==
  /\ RepeatKey
  /\ "gfx_engine_used" \in CallLoop.process_info.valid
  /\ "gfx_engine_used" \notin CallEntry.valid
  /\ CallEntry.gfx_engine_used > 0
  /\ CallEntry.gfx_engine_used <= CallLoop.process_info.gfx_engine_used
  /\ CallLoop.process_info.gfx_engine_used - CallEntry.gfx_engine_used <= CallElapsed
  /\ call.ret
  /\ "gpu_usage" \notin call.process_info.valid

\* counter c of the checked call was valid on both sides and failed a gate
Suppressed(c) ==
  /\ RepeatKey
  /\ c \in CallLoop.process_info.valid
  /\ c \in CallEntry.valid
  /\ \/ CallLoop.process_info[c] < CallEntry[c]
     \/ CallLoop.process_info[c] - CallEntry[c] > CallElapsed

IsFollowUp == call.op = "parse_next"

\* the entry the previous call stored, now the newest of the previous generation
FollowUpBaseline ==
  call.before.last_update_process_cache[Len(call.before.last_update_process_cache)]

(***************************************************************************)
(* C18  Non-monotonic counter handling: when the delta of a counter is     *)
(* suppressed (negative, or larger than the elapsed time) no usage is      *)
(* derived from it and the cache keeps a raw baseline for the counter (the *)
(* sample just read, with the time of the call); the next cycle derives a  *)
(* usage from that baseline when its sample is well behaved.               *)
(***************************************************************************)
C18_SuppressedDeltaKeepsBaseline ==
  /\ \A cu \in CounterUsage :
       Suppressed(cu[1]) =>
         /\ NotDerivedFrom(cu[1], cu[2])
         /\ Len(gpu_infos[1].current_update_process_cache)
              = Len(call.before.current_update_process_cache) + 1
         /\ LET e == gpu_infos[1].current_update_process_cache[
                       Len(gpu_infos[1].current_update_process_cache)]
            IN  /\ e.client_id.client_id = CallLoop.cid
                /\ cu[1] \in e.valid
                /\ e[cu[1]] = CallLoop.process_info[cu[1]]
                /\ e.last_measurement_tstamp = call.time
  /\ (IsFollowUp /\ "gfx_engine_used" \in call.suppressed
        /\ call.first_cid = 1) =>
       LET e == FollowUpBaseline
           delta == call.process_info.gfx_engine_used - e.gfx_engine_used
       IN  /\ "gfx_engine_used" \in e.valid
           /\ e.last_measurement_tstamp = call.first_time
           /\ (delta >= 0 /\ delta <= call.time - call.first_time) =>
                 /\ "gpu_usage" \in call.process_info.valid
                 /\ call.process_info.gpu_usage
                       = busy_usage_from_time_usage_round(
                           call.process_info.gfx_engine_used, e.gfx_engine_used,
                           call.time - call.first_time)

\* the gfx delta of a call was suppressed and, one cycle later, a sample
\* larger than the kept baseline by less than the period derived a usage
C18_Witness ==
  /\ IsFollowUp
  /\ "gfx_engine_used" \in call.suppressed
  /\ call.first_cid = 1
  /\ FollowUpBaseline.gfx_engine_used < call.process_info.gfx_engine_used
  /\ "gpu_usage" \in call.process_info.valid
  /\ call.process_info.gpu_usage > 0

IsShutdown == call.op = "shutdown"

(***************************************************************************)
(* C19  Shutdown frees both cache generations entirely: after              *)
(* gpuinfo_shutdown_info_extraction both tables of the identity cache are  *)
(* empty with nothing allocated, and both engine-usage generations of      *)
(* every device are empty with no entry left allocated.                    *)
(***************************************************************************)
C19_ShutdownFreesCaches ==
  IsShutdown =>
    /\ cached_process_info = {}
    /\ updated_process_info = {}
    /\ heap = {}
    /\ \A i \in 1..Len(call.devices) :
         /\ call.cache_entries[i].last = <<>>
         /\ call.cache_entries[i].current = <<>>
         /\ call.cache_entries[i].live = 0

\* a shutdown that found entries in the identity cache and in the previous
\* engine-usage generation of both devices
C19_Witness ==
  /\ IsShutdown
  /\ call.cached # {}
  /\ \A i \in 1..Len(call.devices) : call.devices[i].last_update_process_cache # <<>>
  /\ heap = {}

(***************************************************************************)
(* C20  Shutdown releases every scoped resource: after                     *)
(* gpuinfo_amdgpu_shutdown no resource a registered device acquired (DRM   *)
(* node fd, sysfs and hwmon directory fds, fan, PCIe and power-cap         *)
(* streams, vendor device handle) is still open.                           *)
(***************************************************************************)
C20_ShutdownReleasesResources ==
  IsShutdown => call.left_open = {}

(***************************************************************************)
(* gpuinfo_refresh_dynamic_info: the backend re-reads the sensors of a      *)
(* registered device                                                       *)
(***************************************************************************)
\* the return of a libdrm sensor query in cycle k
SensorQuery(ok, k) == [status |-> IF ok THEN 0 ELSE -22, out32 |-> IF ok THEN 40000 + k ELSE 0]

\* what the queries and reads of one call return in cycle k.  A stream that
\* was not opened is not read.
DynReadings(gpu_info, k) ==
  LET stream(f, good, bad) == IF f \in gpu_info.open THEN {good, bad} ELSE {bad}
  IN  [gpu_info : {[status |-> 0, max_engine_clk |-> 2100000 + k, max_memory_clk |-> 1000000 + k],
                   [status |-> -22, max_engine_clk |-> 0, max_memory_clk |-> 0]},
       sclk : {SensorQuery(ok, k) : ok \in BOOLEAN},
       mclk : {SensorQuery(ok, k) : ok \in BOOLEAN},
       load : {SensorQuery(ok, k) : ok \in BOOLEAN},
       temp : {SensorQuery(ok, k) : ok \in BOOLEAN},
       power : {SensorQuery(ok, k) : ok \in BOOLEAN},
       memory : {[status |-> 0, total_heap_size |-> 8388608, heap_usage |-> 2097152 + k,
                  usable_heap_size |-> 8000000],
                 [status |-> -22, total_heap_size |-> 0, heap_usage |-> 0,
                  usable_heap_size |-> 0]},
       fan : stream("fanSpeedFILE", [matched |-> 1, value |-> 100 + k],
                    [matched |-> 0, value |-> 0]),
       pcie_dpm : stream("PCIeDPM", [found |-> TRUE, speed |-> 8, width |-> 16],
                         [found |-> FALSE, speed |-> 0, width |-> 0])
                    \cup (IF "PCIeDPM" \in gpu_info.open
                            THEN {[found |-> TRUE, speed |-> 3, width |-> 8]} ELSE {}),
       pcie_bw : stream("PCIeBW", [matched |-> 3, received |-> 1000 + k, transmitted |-> 500 + k,
                                   maxPayloadSize |-> 256],
                        [matched |-> 0, received |-> 0, transmitted |-> 0,
                         maxPayloadSize |-> 0]),
       power_cap : stream("powerCap", [matched |-> 1, value |-> 200000000 + k],
                          [matched |-> 0, value |-> 0])]

\* the readings of a cycle in which every query and every read succeeds
AllSensorsOk(gpu_info, k) ==
  CHOOSE q \in DynReadings(gpu_info, k) :
    /\ q.gpu_info.status = 0 /\ q.sclk.status = 0 /\ q.mclk.status = 0 /\ q.load.status = 0
    /\ q.temp.status = 0 /\ q.power.status = 0 /\ q.memory.status = 0
    /\ "fanSpeedFILE" \in gpu_info.open => q.fan.matched = 1
    /\ "PCIeDPM" \in gpu_info.open => q.pcie_dpm.speed = 8
    /\ "PCIeBW" \in gpu_info.open => q.pcie_bw.matched = 3
    /\ "powerCap" \in gpu_info.open => q.power_cap.matched = 1

\* the devices after gpuinfo_init_info_extraction and
\* gpuinfo_populate_static_infos, before the first refresh or one cycle after
\* a refresh in which every sensor answered
DynInit ==
  /\ IdentityIdle
  /\ pc = "dynamic"
  /\ now = 2000
  /\ LET devices == gpuinfo_populate_static_infos(
                      RegisteredDevices(
                        gpuinfo_amdgpu_get_device_handles(TwoGpuHost, 0, -1, TRUE, TRUE, TRUE)))
     IN  \/ gpu_infos = devices
         \/ gpu_infos = [d \in 1..Len(devices) |->
                           gpuinfo_amdgpu_refresh_dynamic_info(devices[d],
                                                               AllSensorsOk(devices[d], 1))]
  /\ call = NoCall

\* device->vendor->refresh_dynamic_info(device) for one device of the list
DynRefresh ==
  /\ pc = "dynamic"
  /\ \E d \in 1..Len(gpu_infos) : \E q \in DynReadings(gpu_infos[d], 2) :
       /\ gpu_infos' = [gpu_infos EXCEPT
                          ![d] = gpuinfo_amdgpu_refresh_dynamic_info(
                                   container_of(gpu_infos, d), q)]
       /\ call' = [op |-> "refresh_dynamic", device |-> d, q |-> q,
                   before |-> gpu_infos[d]]
  /\ pc' = "refreshed"
  /\ UNCHANGED <<now, identityVars>>

DynNext == DynRefresh

DynSpec == DynInit /\ [][DynNext]_vars

IsRefreshDynamic == call.op = "refresh_dynamic"

\* the query or read that field f of the dynamic info comes from succeeded
\* in the recorded call
SensorReadOk(f) ==
  LET q == call.q
      open == call.before.open
  IN  \/ f = "gpu_clock_speed" /\ q.sclk.status = 0
      \/ f \in {"gpu_clock_speed_max", "mem_clock_speed_max"} /\ q.gpu_info.status = 0
      \/ f = "mem_clock_speed" /\ q.mclk.status = 0
      \/ f = "gpu_util_rate" /\ q.load.status = 0
      \/ f \in {"total_memory", "used_memory", "free_memory", "mem_util_rate"}
           /\ q.memory.status = 0
      \/ f = "gpu_temp" /\ q.temp.status = 0
      \/ f = "fan_speed" /\ "fanSpeedFILE" \in open /\ q.fan.matched = 1
      \/ f = "power_draw" /\ q.power.status = 0
      \/ f = "pcie_link_width" /\ "PCIeDPM" \in open /\ q.pcie_dpm.found
      \/ f = "pcie_link_gen" /\ "PCIeDPM" \in open /\ q.pcie_dpm.found
           /\ q.pcie_dpm.speed \in {2, 5, 8, 16, 32, 64}
      \/ f \in {"pcie_rx", "pcie_tx"} /\ "PCIeBW" \in open /\ q.pcie_bw.matched = 3
      \/ f = "power_draw_max" /\ "powerCap" \in open /\ q.power_cap.matched = 1

(***************************************************************************)
(* C21  Dynamic validity is per cycle: after refresh_dynamic_info returns, *)
(* a dynamic field is valid exactly when its own sensor read succeeded in  *)
(* this call.  A field that was valid in the previous cycle and whose read *)
(* now fails is invalid, and a failed read invalidates no field that has   *)
(* another source.                                                         *)
(***************************************************************************)
C21_DynamicValidityPerCycle ==
  IsRefreshDynamic =>
    \A f \in DynamicFields :
      f \in gpu_infos[call.device].dynamic_info.valid <=> SensorReadOk(f)

\* the temperature was valid after the previous cycle and its read fails
\* now, while the load is read: the temperature is invalid and the load is
\* valid with the value of this call
C21_Witness ==
  /\ IsRefreshDynamic
  /\ "gpu_temp" \in call.before.dynamic_info.valid
  /\ call.q.temp.status # 0
  /\ call.q.load.status = 0
  /\ "gpu_temp" \notin gpu_infos[call.device].dynamic_info.valid
  /\ "gpu_util_rate" \in gpu_infos[call.device].dynamic_info.valid
  /\ gpu_infos[call.device].dynamic_info.gpu_util_rate = call.q.load.out32

(***************************************************************************)
(* The parser on streams of well-formed and malformed lines                *)
(***************************************************************************)
WellFormedLines ==
  {L_vram(2048), Line(vram_old, "", 1024, " kB"), L_client(1),
   L_gfx_old(30), Line(compute_old, "0", 12, ".5%"), Line(dec_old, "1", 40, "%"),
   L_ns(gfx_new, 1500), L_ns(gfx_new, 900)}

\* a unit that is not kB or KiB, no unit, a value without a digit, a client
\* id followed by a letter, a legacy key without index or with an index that
\* is not a number, a cumulative time in another unit
MalformedLines ==
  {Line(vram_new, "", 2048, " MiB"), Line(vram_new, "", 2048, ""),
   Line(vram_new, "", NoNum, "none"), Line(client_id, "", 5, "x"),
   Line(gfx_old, "", 30, "%"), Line(gfx_old, "hub0", 30, "%"),
   Line(gfx_new, "", 1500, " us")}

RecordStreams == SeqsUpTo(WellFormedLines \cup MalformedLines, MaxLines)

\* the device had no entry, or an entry of client 1 or of client 5 stored
\* one period ago
RecordInit ==
  /\ IdentityIdle
  /\ pc = "record"
  /\ now = 2000
  /\ \E prev \in { <<>>, <<Fd(1, <<L_client(1), L_ns(gfx_new, 900)>>)>>,
                    <<Fd(1, <<L_client(5), L_ns(gfx_new, 900)>>)>> } :
       gpu_infos = <<swap_process_cache_for_next_update(ParseRun(ParseDevice, prev, 1, 1000))>>
  /\ call = NoCall

\* the sweep hands one descriptor of process pid to the parser of device 1
RecordCall ==
  /\ pc = "record"
  /\ \E pid \in Pids, lines \in RecordStreams :
       LET r == parse_drm_fdinfo_amd(gpu_infos[1], lines, ZeroProcess(pid), now, TRUE)
       IN  /\ gpu_infos' = <<r.gpu_info>>
           /\ call' = [op |-> "parse", pid |-> pid, lines |-> lines,
                       calloc_ok |-> TRUE, before |-> gpu_infos[1],
                       time |-> now, ret |-> r.ret, process_info |-> r.process_info,
                       assert_holds |-> r.assert_holds]
  /\ pc' = "recorded"
  /\ UNCHANGED <<now, identityVars>>

RecordNext == RecordCall

RecordSpec == RecordInit /\ [][RecordNext]_vars

\* a vram line of the documented form: the key, an unsigned integer, kB or KiB
WellFormedVram(l) ==
  /\ l.name \in {vram_old, vram_new} /\ l.idx = ""
  /\ l.num # NoNum
  /\ l.rest \in {" kB", " KiB"}

\* the last element of a non-empty set of line numbers
LastOf(S) == CHOOSE i \in S : \A j \in S : j <= i

(***************************************************************************)
(* C22  Memory unit conversion: a well-formed vram line (key "vram mem" or *)
(* "drm-memory-vram", unsigned integer N followed by " kB" or " KiB") sets *)
(* the GPU-memory field of the record valid with value N * 1024 bytes; of  *)
(* several such lines the last one counts.                                 *)
(***************************************************************************)
C22_MemoryUnitConversion ==
  (IsParse /\ call.ret) =>
    LET V == {i \in 1..Len(call.lines) : WellFormedVram(call.lines[i])}
    IN  V # {} =>
          /\ "gpu_memory_usage" \in call.process_info.valid
          /\ call.process_info.gpu_memory_usage = call.lines[LastOf(V)].num * 1024

\* drm-memory-vram: 2048 KiB gave 2097152 bytes
C22_Witness ==
  /\ IsParse /\ call.ret
  /\ \E i \in 1..Len(call.lines) : call.lines[i] = L_vram(2048)
  /\ \A i \in 1..Len(call.lines) : WellFormedVram(call.lines[i]) => call.lines[i] = L_vram(2048)
  /\ "gpu_memory_usage" \in call.process_info.valid
  /\ call.process_info.gpu_memory_usage = 2097152

\* the key of the line is one the parser knows
KnownKey(l) ==
  \/ l.name \in {vram_old, vram_new, client_id} /\ l.idx = ""
  \/ l.name \in {gfx_old, compute_old, dec_old, enc_old, gfx_new, compute_new, dec_new, enc_new}

\* the value of the line has the format of its key
ValueMatchesKey(l) ==
  \/ WellFormedVram(l)
  \/ l.name = client_id /\ l.idx = "" /\ l.num # NoNum /\ l.rest = ""
  \/ /\ l.name \in {gfx_old, compute_old, dec_old, enc_old}
     /\ IdxIsNumber(l.idx)
     /\ l.num # NoNum
     /\ l.rest \in {"%"} \cup {t[1] : t \in {t \in DecimalTails : t[3] = "%"}}
  \/ /\ l.name \in {gfx_new, compute_new, dec_new, enc_new}
     /\ l.num # NoNum /\ l.rest = " ns"

\* a key/value line with a known key whose value is not in the expected format
Malformed(l) == extract_kv(l) /\ KnownKey(l) /\ ~ValueMatchesKey(l)

\* the stream without its i-th line
RemoveAt(lines, i) ==
  [k \in 1..(Len(lines) - 1) |-> IF k < i THEN lines[k] ELSE lines[k + 1]]

\* the recorded call left the record, the return value and the device as a
\* call on the stream without its i-th line leaves them
SameAsWithout(i) ==
  LET r == parse_drm_fdinfo_amd(call.before, RemoveAt(call.lines, i), ZeroProcess(call.pid),
                                call.time, call.calloc_ok)
  IN  /\ call.ret = r.ret
      /\ call.process_info = r.process_info
      /\ gpu_infos[1] = r.gpu_info

(***************************************************************************)
(* C23  Malformed record handling: a line whose value does not match the   *)
(* format of its key changes no field of the record and does not set the   *)
(* client id, and the parser goes on with the remaining lines: the call    *)
(* ends as it would without the line.                                      *)
(***************************************************************************)
C23_MalformedLineSkipped ==
  IsParse =>
    \A i \in 1..Len(call.lines) : Malformed(call.lines[i]) => SameAsWithout(i)

\* the same for every malformed line but a client id with trailing
\* characters, and a stream whose only client id lines are malformed does
\* not reach the cache
C23_MalformedValueLineSkipped ==
  IsParse =>
    /\ \A i \in 1..Len(call.lines) :
         (Malformed(call.lines[i]) /\ call.lines[i].name # client_id) => SameAsWithout(i)
    /\ (\A i \in 1..Len(call.lines) :
          call.lines[i].name = client_id => Malformed(call.lines[i]))
         => gpu_infos[1] = call.before

\* the well-formed legacy lines of the stream under one of the keys, and the
\* sum of their rounded values
WellFormedLegacy(l, keys) == l.name \in keys /\ ValueMatchesKey(l)

RECURSIVE SumLegacy(_, _)
SumLegacy(lines, keys) ==
  IF lines = <<>> THEN 0
  ELSE (IF WellFormedLegacy(Head(lines), keys) THEN round10(strtod(Head(lines)).tenths) ELSE 0)
         + SumLegacy(Tail(lines), keys)

\* which legacy keys feed each usage field, which modern key each counter
LegacyKeys ==
  {<<"gpu_usage", {gfx_old, compute_old}>>, <<"decode_usage", {dec_old}>>,
   <<"encode_usage", {enc_old}>>}

EngineKeys ==
  {<<"gfx_engine_used", gfx_new>>, <<"compute_engine_used", compute_new>>,
   <<"dec_engine_used", dec_new>>, <<"enc_engine_used", enc_new>>}

(***************************************************************************)
(* C24  Accumulate versus overwrite at parse time: the well-formed legacy  *)
(* percentage lines of a stream add their rounded values to gpu usage (gfx *)
(* and compute keys), decode usage or encode usage, so that the field is   *)
(* their sum whenever the cache derives no usage; the well-formed modern   *)
(* nanosecond lines overwrite the raw counter of their engine, which ends  *)
(* as the value of the last such line.                                     *)
(***************************************************************************)
C24_AccumulateVersusOverwrite ==
  (IsParse /\ call.ret) =>
    /\ ~RepeatKey =>
         \A uk \in LegacyKeys :
           IF \E i \in 1..Len(call.lines) : WellFormedLegacy(call.lines[i], uk[2])
             THEN /\ uk[1] \in call.process_info.valid
                  /\ call.process_info[uk[1]] = SumLegacy(call.lines, uk[2])
             ELSE uk[1] \notin call.process_info.valid
    /\ \A ck \in EngineKeys :
         LET E == {i \in 1..Len(call.lines) :
                     call.lines[i].name = ck[2] /\ ValueMatchesKey(call.lines[i])}
         IN  IF E # {}
               THEN /\ ck[1] \in call.process_info.valid
                    /\ call.process_info[ck[1]] = call.lines[LastOf(E)].num
               ELSE ck[1] \notin call.process_info.valid

\* gfx0: 30% and compute0: 12.5% gave a gpu usage of 43, and the counter
\* of the drm-engine-gfx line that follows is stored as it is
C24_Witness ==
  /\ IsParse /\ call.ret
  /\ call.lines = <<L_gfx_old(30), Line(compute_old, "0", 12, ".5%"), L_ns(gfx_new, 900)>>
  /\ ~RepeatKey
  /\ call.process_info.gpu_usage = 43
  /\ call.process_info.gfx_engine_used = 900

\* the entries of both generations of the identity cache
IdentityEntries == cached_process_info \cup updated_process_info

(***************************************************************************)
(* C25  Identity is resolved exactly once per cache entry: the command     *)
(* line and user name of a pid are resolved when its entry is created and  *)
(* never again.  No entry is created in a cycle for a pid that was         *)
(* observed in the cycle before, a pid has one entry also when it is on    *)
(* two devices, and no step changes the user name or command line an entry *)
(* holds, also when they were resolved to nothing.                         *)
(***************************************************************************)
C25_IdentityResolvedOnce ==
  /\ [](/\ created \cap seen_prev = {}
        /\ \A pid \in Pids : Cardinality(HASH_FIND_PID(IdentityEntries, pid)) <= 1)
  /\ [][\A e \in IdentityEntries :
          \A f \in cached_process_info' \cup updated_process_info' :
            f.addr = e.addr =>
              /\ f.pid = e.pid
              /\ f.user_name = e.user_name
              /\ f.cmdline = e.cmdline]_vars

\* the refresh returned from a cycle in which pid 1 was on both devices as
\* in the cycle before; its entry, made in an earlier cycle, holds the
\* nothing the resolution returned, and the records have no command line
C25_Witness ==
  /\ pc = "idle"
  /\ 1 \in seen_prev
  /\ 1 \notin created
  /\ \A i \in 1..Len(gpu_infos) :
       \E j \in 1..Len(gpu_infos[i].processes) :
         /\ gpu_infos[i].processes[j].pid = 1
         /\ "cmdline" \notin gpu_infos[i].processes[j].valid
  /\ \E e \in cached_process_info : e.pid = 1 /\ e.cmdline = NULL /\ e.user_name = NULL

(***************************************************************************)
(* C26  Fatal allocation failure terminates the process: when the          *)
(* allocation of an engine-cache entry fails in parse_drm_fdinfo_amd the   *)
(* program terminates; the call does not return to the sweep.              *)
(***************************************************************************)
C26_AllocationFailureTerminates ==
  (IsParse /\ ~call.calloc_ok) => pc = "terminated"

(***************************************************************************)
(* gpuinfo_init_info_extraction over the registered vendors: the amdgpu    *)
(* backend and one other vendor, of which only the outcome of its          *)
(* callbacks is followed                                                   *)
(***************************************************************************)
\* gpuinfo_amdgpu_init.  dl: whether dlopen finds libdrm, whether dlsym finds
\* every symbol init asks libdrm for, whether dlopen finds libdrm_amdgpu.
\* A handle is TRUE when it is set.
gpuinfo_amdgpu_init(dl) ==
  IF ~dl.libdrm
    THEN [ret |-> FALSE, libdrm_handle |-> FALSE, libdrm_amdgpu_handle |-> FALSE]
  ELSE IF ~dl.symbols
    THEN [ret |-> FALSE, libdrm_handle |-> FALSE, libdrm_amdgpu_handle |-> FALSE]
  ELSE [ret |-> TRUE, libdrm_handle |-> TRUE, libdrm_amdgpu_handle |-> dl.libdrm_amdgpu]

\* a vendor no callback of which has been called
VendorIdle ==
  [init_called |-> FALSE, init_ok |-> FALSE, enumerated |-> FALSE, enum_ret |-> FALSE,
   count |-> 0, shutdown_called |-> FALSE, handle |-> FALSE, devices |-> <<>>]

\* the body of the loop for the amdgpu vendor
InitAmdgpu(env, mask) ==
  LET i == gpuinfo_amdgpu_init(env.dl)
      r == gpuinfo_amdgpu_get_device_handles(env.devs, 0, mask, i.libdrm_handle,
                                             i.libdrm_amdgpu_handle, env.calloc_ok)
  IN  IF ~i.ret
        THEN [vendor |-> [VendorIdle EXCEPT !.init_called = TRUE, !.handle = i.libdrm_handle],
              mask |-> mask]
      ELSE IF ~r.ret \/ r.count = 0
        THEN [vendor |-> [VendorIdle EXCEPT
                            !.init_called = TRUE, !.init_ok = TRUE, !.enumerated = TRUE,
                            !.enum_ret = r.ret, !.shutdown_called = TRUE,
                            !.devices = gpuinfo_amdgpu_shutdown(<<>>).gpu_infos],
              mask |-> r.mask]
      ELSE [vendor |-> [VendorIdle EXCEPT
                          !.init_called = TRUE, !.init_ok = TRUE, !.enumerated = TRUE,
                          !.enum_ret = TRUE, !.count = r.count, !.handle = TRUE,
                          !.devices = RegisteredDevices(r)],
            mask |-> r.mask]

\* the body of the loop for the other vendor: o is what its init and its
\* get_device_handles return
InitOther(o, mask) ==
  IF ~o.init_ok
    THEN [vendor |-> [VendorIdle EXCEPT !.init_called = TRUE], mask |-> mask]
  ELSE IF ~o.enum_ret \/ o.count = 0
    THEN [vendor |-> [VendorIdle EXCEPT
                        !.init_called = TRUE, !.init_ok = TRUE, !.enumerated = TRUE,
                        !.enum_ret = o.enum_ret, !.shutdown_called = TRUE],
          mask |-> mask]
  ELSE [vendor |-> [VendorIdle EXCEPT
                      !.init_called = TRUE, !.init_ok = TRUE, !.enumerated = TRUE,
                      !.enum_ret = TRUE, !.count = o.count, !.handle = TRUE],
        mask |-> mask]

InitVendor(v, env, mask) ==
  IF v = "amdgpu" THEN InitAmdgpu(env, mask) ELSE InitOther(env.other, mask)

\* the loop over gpu_vendors that gives up at the first vendor without device
RECURSIVE InitVendorLoop_StopsAtAbsentVendor(_, _, _, _)
InitVendorLoop_StopsAtAbsentVendor(order, n, env, st) ==
  IF n > Len(order) THEN st
  ELSE LET r == InitVendor(order[n], env, st.mask)
           st1 == [st EXCEPT !.vendors[order[n]] = r.vendor, !.mask = r.mask,
                             !.devices_count = @ + r.vendor.count]
       IN  IF r.vendor.count = 0 THEN st1
           ELSE InitVendorLoop_StopsAtAbsentVendor(order, n + 1, env, st1)

\* list_for_each_entry(vendor, &gpu_vendors, list)
RECURSIVE InitVendorLoop(_, _, _, _)
InitVendorLoop(order, n, env, st) ==
  IF n > Len(order) THEN st
  ELSE LET r == InitVendor(order[n], env, st.mask)
       IN  InitVendorLoop(order, n + 1, env,
                          [st EXCEPT !.vendors[order[n]] = r.vendor, !.mask = r.mask,
                                     !.devices_count = @ + r.vendor.count])

\* gpuinfo_init_info_extraction(mask, devices_count, devices)
gpuinfo_init_info_extraction(mask, order, env) ==
  LET st == InitVendorLoop(order, 1, env,
                           [vendors |-> [v \in {"amdgpu", "other"} |-> VendorIdle],
                            mask |-> mask, devices_count |-> 0])
  IN  [ret |-> TRUE, devices_count |-> st.devices_count, vendors |-> st.vendors,
       mask |-> st.mask]

\* register_gpu_vendor is called by the constructors of the backends, in an
\* order the build decides
VendorOrders == {<<"amdgpu", "other">>, <<"other", "amdgpu">>}

\* what drmGetDevices reports: nothing, two amdgpu devices, a device of
\* another driver, an amdgpu device that fails to initialize
InitHosts ==
  { <<>>, TwoGpuHost, <<DrmDevice(FALSE, TRUE, TRUE, "i915", 0, 1)>>,
    <<DrmDevice(TRUE, TRUE, TRUE, "amdgpu", 1, 1)>> }

OtherVendorOutcomes ==
  {[init_ok |-> FALSE, enum_ret |-> FALSE, count |-> 0],
   [init_ok |-> TRUE, enum_ret |-> FALSE, count |-> 0],
   [init_ok |-> TRUE, enum_ret |-> TRUE, count |-> 0],
   [init_ok |-> TRUE, enum_ret |-> TRUE, count |-> 1]}

InitEnvs ==
  [dl : [libdrm : BOOLEAN, symbols : BOOLEAN, libdrm_amdgpu : BOOLEAN],
   devs : InitHosts, calloc_ok : BOOLEAN, other : OtherVendorOutcomes]

ExtractInit ==
  /\ IdentityIdle
  /\ pc = "init"
  /\ now = 0
  /\ gpu_infos = <<>>
  /\ call = NoCall

\* main calls gpuinfo_init_info_extraction
ExtractCall ==
  /\ pc = "init"
  /\ \E order \in VendorOrders, env \in InitEnvs, mask \in {-1, 0} :
       \E r \in {gpuinfo_init_info_extraction(mask, order, env)} :
         /\ gpu_infos' = r.vendors["amdgpu"].devices
         /\ call' = [op |-> "init", order |-> order, env |-> env, devs |-> env.devs,
                     mask_in |-> mask, libdrm_amdgpu_ok |-> env.dl.libdrm_amdgpu,
                     ret |-> r.ret, devices_count |-> r.devices_count,
                     vendors |-> r.vendors, mask |-> r.mask]
  /\ pc' = "initialized"
  /\ UNCHANGED <<now, identityVars>>

\* get_device_handles of the amdgpu vendor called again after the extraction
\* was initialized
EnumerateLater ==
  /\ pc = "initialized"
  /\ LET r == gpuinfo_amdgpu_get_device_handles(call.devs, 0, call.mask_in,
                                                call.vendors["amdgpu"].handle,
                                                call.libdrm_amdgpu_ok, call.env.calloc_ok)
     IN  call' = [op |-> "enum_later", init_ok |-> call.vendors["amdgpu"].init_ok,
                  ret |-> r.ret]
  /\ pc' = "enumerated"
  /\ UNCHANGED <<now, gpu_infos, identityVars>>

ExtractNext == ExtractCall \/ EnumerateLater

ExtractSpec == ExtractInit /\ [][ExtractNext]_vars

IsInit == call.op = "init"

\* the vendor is absent: its init fails, or its enumeration fails or finds
\* no device
VendorAbsent(v) ==
  IF v = "amdgpu"
    THEN \/ ~call.env.dl.libdrm \/ ~call.env.dl.symbols
         \/ Len(call.devs) = 0 \/ ~call.env.calloc_ok
         \/ \A i \in 1..Len(call.devs) : ~OpensSuccessfully(i)
    ELSE ~call.env.other.init_ok \/ ~call.env.other.enum_ret \/ call.env.other.count = 0

\* the devices a vendor that is not absent brings
VendorDevices(v) ==
  IF VendorAbsent(v) THEN 0
  ELSE IF v = "amdgpu"
    THEN Cardinality({i \in 1..Len(call.devs) : OpensSuccessfully(i)})
    ELSE call.env.other.count

ObservedUpTo(n) ==
  UNION {{gpu_infos[i].processes[j].pid : j \in 1..Len(gpu_infos[i].processes)} :
           i \in 1..n}

\* the pids on the process list of device i
ObservedOn(i) == {gpu_infos[i].processes[j].pid : j \in 1..Len(gpu_infos[i].processes)}

\* the entries of an engine cache
CacheEntries(head) == {head[k] : k \in 1..Len(head)}

\* a step that leaves the devices on the list
KeepsDevices == Len(gpu_infos') = Len(gpu_infos)

(***************************************************************************)
(* C28  Cycle ordering inside gpuinfo_refresh_processes: the process lists *)
(* are emptied before the sweep, so during the sweep a list holds only     *)
(* the pids the sweep has visited; no backend swaps its engine cache       *)
(* during the sweep, device n swaps when the second loop reaches it; the   *)
(* identity cache swaps its generations once per cycle, after the last     *)
(* device was enriched, so the entry of every pid enriched so far is in    *)
(* updated_process_info until then and in cached_process_info afterwards,  *)
(* a pid observed only on the last device included.                        *)
(***************************************************************************)
C28_CycleOrdering ==
  /\ [](/\ pc = "sweep" => \A p \in ObservedUpTo(Len(gpu_infos)) : p < cursor
        /\ pc = "devices" =>
             \A p \in ObservedUpTo(cursor - 1) : HASH_FIND_PID(updated_process_info, p) # {}
        /\ pc = "clean" =>
             \A p \in Observed(gpu_infos) :
               /\ HASH_FIND_PID(updated_process_info, p) # {}
               /\ HASH_FIND_PID(cached_process_info, p) = {}
        /\ pc = "idle" =>
             /\ updated_process_info = {}
             /\ \A p \in Observed(gpu_infos) : HASH_FIND_PID(cached_process_info, p) # {})
  /\ [][/\ (pc = "idle" /\ pc' = "sweep") =>
             \A i \in 1..Len(gpu_infos') : gpu_infos'[i].processes = <<>>
        /\ KeepsDevices =>
             \A i \in 1..Len(gpu_infos) :
               ~(CacheEntries(gpu_infos'[i].last_update_process_cache)
                   \subseteq CacheEntries(gpu_infos[i].last_update_process_cache))
                 => /\ pc = "devices" /\ cursor = i
                    /\ gpu_infos'[i].last_update_process_cache
                         = gpu_infos[i].current_update_process_cache
                    /\ gpu_infos'[i].current_update_process_cache = <<>>
        /\ (pc = "sweep" /\ KeepsDevices) =>
             \A i \in 1..Len(gpu_infos) :
               Len(gpu_infos'[i].current_update_process_cache)
                 >= Len(gpu_infos[i].current_update_process_cache)
        /\ pc # "clean" => cached_process_info' \subseteq cached_process_info
        /\ pc = "clean" => /\ cached_process_info' = updated_process_info
                           /\ pc' = "idle"
        /\ (pc = "devices" /\ pc' = "clean") => cursor = Len(gpu_infos)]_vars

\* a pid of the previous cycle that is observed on one device only in the
\* third cycle, while the other device has a process too, keeps the entry
\* it had
C28_Witness ==
  /\ pc = "idle"
  /\ now = 3000
  /\ \E p \in ObservedOn(1) :
       /\ p \notin ObservedOn(2)
       /\ p \in seen_prev
       /\ p \notin created
       /\ HASH_FIND_PID(cached_process_info, p) # {}
  /\ ObservedOn(2) # {}

\* Quotients with remainder over t: x.q + x.r / t with 0 <= x.r < t.
\* The sum of two of them, and the double of one.
QrAdd(x, y, t) ==
  IF x.r >= t - y.r THEN [q |-> x.q + y.q + 1, r |-> x.r - (t - y.r)]
  ELSE [q |-> x.q + y.q, r |-> x.r + y.r]

QrDouble(x, t) == QrAdd(x, x, t)

\* round(100 * u / t), halves away from zero, with 100 = 64 + 32 + 4
RoundedPercent(u, t) ==
  LET x1 == [q |-> u \div t, r |-> u % t]
      x4 == QrDouble(QrDouble(x1, t), t)
      x32 == QrDouble(QrDouble(QrDouble(x4, t), t), t)
      x100 == QrAdd(QrAdd(QrDouble(x32, t), x32, t), x4, t)
  IN  IF x100.r >= t - x100.r THEN x100.q + 1 ELSE x100.q

\* the device of the call has a valid total_memory and the sweep left a
\* valid gpu_memory_usage in the j-th record
BothMemoriesValid(j) ==
  /\ GPUINFO_DYNAMIC_FIELD_VALID(gpu_infos[call.device].dynamic_info, "total_memory")
  /\ GPUINFO_PROCESS_FIELD_VALID(call.processes[j], "gpu_memory_usage")

(***************************************************************************)
(* C29  Per-process GPU memory percentage: gpu_memory_percentage is set    *)
(* for a process exactly when total_memory of the device and               *)
(* gpu_memory_usage of the process are both valid, and then equals         *)
(* round(100 * gpu_memory_usage / total_memory).                           *)
(***************************************************************************)
C29_MemoryPercentage ==
  IsPopulate =>
    \A j \in 1..Len(call.processes) :
      /\ GPUINFO_PROCESS_FIELD_VALID(Enriched(j), "gpu_memory_percentage") <=> BothMemoriesValid(j)
      /\ BothMemoriesValid(j) =>
           Enriched(j).gpu_memory_percentage
             = RoundedPercent(call.processes[j].gpu_memory_usage,
                              gpu_infos[call.device].dynamic_info.total_memory)

\* what holds of the percentage: it is set exactly when both fields are
\* valid, and it is the rounded quotient up to one unit
C29_MemoryPercentageWithinOne ==
  IsPopulate =>
    \A j \in 1..Len(call.processes) :
      /\ GPUINFO_PROCESS_FIELD_VALID(Enriched(j), "gpu_memory_percentage") <=> BothMemoriesValid(j)
      /\ BothMemoriesValid(j) =>
           LET exact == RoundedPercent(call.processes[j].gpu_memory_usage,
                                       gpu_infos[call.device].dynamic_info.total_memory)
           IN  Enriched(j).gpu_memory_percentage \in {exact, exact + 1}

\* the client ids of the entries of an engine cache, one per entry
ClientIdsOf(head) == [k \in 1..Len(head) |-> head[k].client_id.client_id]

\* no client id is on two entries of the cache
NoClientIdTwice(head) ==
  \A k1, k2 \in 1..Len(head) : ClientIdsOf(head)[k1] = ClientIdsOf(head)[k2] => k1 = k2

(***************************************************************************)
(* C30  Within one refresh cycle no client id is inserted twice into the   *)
(* current-generation engine cache of a device: at every insertion the     *)
(* assertion "We should not be processing a client id twice per update"    *)
(* holds, also when two descriptors report the same client id.             *)
(***************************************************************************)
C30_ClientIdInsertedOnce ==
  IsParse =>
    /\ call.assert_holds
    /\ NoClientIdTwice(call.before.current_update_process_cache)
         => NoClientIdTwice(gpu_infos[1].current_update_process_cache)

\* the two generations of the engine cache of a device and the number of
\* entries it has allocated
EngineCaches(gpu_info) ==
  <<gpu_info.last_update_process_cache, gpu_info.current_update_process_cache,
    gpu_info.cache_entries_live>>

(***************************************************************************)
(* C31  An ownership-mismatch abort leaves the engine-usage cache          *)
(* untouched: when parse_drm_fdinfo_amd returns false, both cache          *)
(* generations of the device are as before the call, also when a           *)
(* client-id line came before the mismatching pdev line.                   *)
(***************************************************************************)
C31_RejectionLeavesCaches ==
  (IsParse /\ ~call.ret) => EngineCaches(gpu_infos[1]) = EngineCaches(call.before)

\* a rejected descriptor whose first line is the client id of an entry of
\* the previous generation
C31_Witness ==
  /\ IsParse
  /\ ~call.ret
  /\ Len(call.lines) >= 2
  /\ call.lines[1] = L_client(1)
  /\ call.lines[2] = L_pdev(AddrB)
  /\ HASH_FIND_CLIENT(call.before.last_update_process_cache,
                      [client_id |-> 1, pid |-> call.pid]) # 0
  /\ gpu_infos[1].last_update_process_cache # <<>>

(***************************************************************************)
(* The parser when nvtop_get_current_time may return in this cycle the     *)
(* time it returned in the previous one                                    *)
(***************************************************************************)
\* the times of the previous cycle: one period before the call, seven
\* nanoseconds before it, or the time of the call
PreviousTimes == {1000, 1993, 2000}

\* the histories of the parser specification, one in which client 1
\* reported in the previous cycle the counter it reports in the checked
\* call, and one in which its counters were 3 ns and 7 ns below
ClockHistories ==
  ParseHistories
    \cup {[older |-> <<>>, prev |-> <<Fd(1, <<L_client(1), L_ns(gfx_new, 1500)>>)>>],
          [older |-> <<>>,
           prev |-> <<Fd(1, <<L_client(1), L_ns(gfx_new, 1497), L_ns(enc_new, 1493)>>)>>],
          [older |-> <<>>,
           prev |-> <<Fd(1, <<L_client(1), L_ns(gfx_new, 900), L_ns(compute_new, 1000)>>)>>]}

\* the streams of the parser's checks, and the stream of a process that
\* reports a legacy gfx percentage and both the gfx and the compute counters
ClockStreams ==
  Streams \cup {<<L_client(1), L_gfx_old(30), L_ns(gfx_new, 1500), L_ns(compute_new, 1500)>>}

ClockInit ==
  /\ IdentityIdle
  /\ pc = "parse"
  /\ now = 2000
  /\ \E h \in ClockHistories, t \in PreviousTimes :
       LET older == swap_process_cache_for_next_update(ParseRun(ParseDevice, h.older, 1, 0))
       IN  gpu_infos = <<swap_process_cache_for_next_update(ParseRun(older, h.prev, 1, t))>>
  /\ call = NoCall

\* the call reaches busy_usage_from_time_usage_round with a
\* time_between_measurement of 0
DividesByZero(gpu_info, lines, pid, current_time) ==
  LET st == ParseLines(gpu_info, lines, ZeroProcess(pid))
      i == HASH_FIND_CLIENT(gpu_info.last_update_process_cache,
                            [client_id |-> st.cid, pid |-> pid])
  IN  /\ ~st.returned_false
      /\ st.client_id_set
      /\ i # 0
      /\ nvtop_difftime_u64(gpu_info.last_update_process_cache[i].last_measurement_tstamp,
                            current_time) = 0
      /\ \E c \in EngineFields :
           DeltaGate(st.process_info, gpu_info.last_update_process_cache[i], c, 0)

\* the sweep hands one descriptor to the parser: the call returns, or the
\* division by zero raises SIGFPE and the process ends inside the call
ClockParse ==
  /\ pc = "parse"
  /\ \E pid \in Pids, lines \in ClockStreams :
       \/ \E r \in {parse_drm_fdinfo_amd(gpu_infos[1], lines, ZeroProcess(pid), now, TRUE)} :
            /\ gpu_infos' = <<r.gpu_info>>
            /\ call' = [op |-> "parse", pid |-> pid, lines |-> lines, calloc_ok |-> TRUE,
                        before |-> gpu_infos[1], time |-> now, ret |-> r.ret,
                        process_info |-> r.process_info, assert_holds |-> r.assert_holds,
                        sigfpe |-> FALSE]
            /\ pc' = "parsed"
       \/ /\ DividesByZero(gpu_infos[1], lines, pid, now)
          /\ call' = [op |-> "parse", pid |-> pid, lines |-> lines, calloc_ok |-> TRUE,
                      before |-> gpu_infos[1], time |-> now, ret |-> FALSE,
                      process_info |-> ZeroProcess(pid), assert_holds |-> TRUE,
                      sigfpe |-> TRUE]
          /\ pc' = "sigfpe"
          /\ UNCHANGED gpu_infos
  /\ UNCHANGED <<now, identityVars>>

ClockNext == ClockParse

ClockSpec == ClockInit /\ [][ClockNext]_vars

(***************************************************************************)
(* C32  The usage derivation never divides by zero: whenever               *)
(* busy_usage_from_time_usage_round is called, which is whenever the       *)
(* counter of a repeat key passes the gates, its                           *)
(* time_between_measurement is greater than 0, also when the cached        *)
(* timestamp is the current one and the counter did not change.            *)
(***************************************************************************)
C32_NoDivisionByZero ==
  (IsParse /\ RepeatKey) =>
    /\ \A c \in EngineFields : WellBehaved(c) => CallElapsed > 0
    /\ ~call.sigfpe

\* 100 * delta / elapsed of counter c in the recorded call, rounded to the
\* nearest integer, halves up
RoundedBusyPercent(c) ==
  (2 * 100 * (CallLoop.process_info[c] - CallEntry[c]) + CallElapsed) \div (2 * CallElapsed)

\* the counters that feed usage field u and pass the two gates in the
\* recorded call
Writers(u) == {c \in EngineFields : <<c, u>> \in CounterUsage /\ WellBehaved(c)}

(***************************************************************************)
(* C33  Every usage percentage derived from cumulative nanosecond          *)
(* counters lies in 0..100: when the elapsed time is positive, a usage     *)
(* field that a counter passing the two gates feeds holds                  *)
(* floor((100*delta + elapsed/2) / elapsed) of such a counter, which is at *)
(* most 100, and a usage field no such counter feeds is as the lines of    *)
(* the stream left it.                                                     *)
(***************************************************************************)
C33_DerivedPercentageInRange ==
  (IsParse /\ RepeatKey /\ CallElapsed > 0) =>
    \A u \in {"gpu_usage", "encode_usage", "decode_usage"} :
      /\ Writers(u) # {} =>
           /\ GPUINFO_PROCESS_FIELD_VALID(call.process_info, u)
           /\ \E c \in Writers(u) : call.process_info[u] = RoundedBusyPercent(c)
           /\ call.process_info[u] \in 0..100
      /\ Writers(u) = {} => SameField(call.process_info, CallLoop.process_info, u)

\* seven nanoseconds after the previous cycle the gfx counter has grown by
\* 3 and the enc counter by 7: 43 percent, rounded up from 42.86, and 100
C33_Witness ==
  /\ IsParse /\ RepeatKey
  /\ CallElapsed = 7
  /\ "gfx_engine_used" \in Writers("gpu_usage")
  /\ CallLoop.process_info.gfx_engine_used - CallEntry.gfx_engine_used = 3
  /\ call.process_info.gpu_usage = 43
  /\ "enc_engine_used" \in Writers("encode_usage")
  /\ CallLoop.process_info.enc_engine_used - CallEntry.enc_engine_used = 7
  /\ call.process_info.encode_usage = 100

\* the entries of the current generation stored under the client id and
\* the pid of the recorded call
CallStored ==
  {k \in 1..Len(gpu_infos[1].current_update_process_cache) :
     gpu_infos[1].current_update_process_cache[k].client_id
       = [client_id |-> CallLoop.cid, pid |-> call.pid]}

\* one entry is stored for the call; its valid counters are the engine
\* counters valid in the record, with their values, and its timestamp is the
\* time of the call
MeasurementStored ==
  /\ Cardinality(CallStored) = 1
  /\ \A k \in CallStored :
       LET e == gpu_infos[1].current_update_process_cache[k]
       IN  /\ e.valid = call.process_info.valid \cap EngineFields
           /\ \A c \in e.valid : e[c] = call.process_info[c]
           /\ e.last_measurement_tstamp = call.time

(***************************************************************************)
(* C34  After every parse that read a valid client id and was not          *)
(* rejected, the current generation of the device holds one entry for the  *)
(* key, whose valid counters are exactly the engine counters valid in the  *)
(* record at the end of the parse, with their values, and whose timestamp  *)
(* is the time of the parse; the bits of counters not observed are clear.  *)
(***************************************************************************)
C34_MeasurementStoredAfterParse ==
  CallCached => MeasurementStored

\* C34 holds whenever the allocation of a new entry succeeds, the client id
\* was not processed before in the cycle and the entry found in the previous
\* generation is one of the pid of the call
C34_MeasurementStoredWhenAllocated ==
  ( /\ CallCached
    /\ call.calloc_ok
    /\ call.assert_holds
    /\ CallHit # 0 => CallEntry.client_id.pid = call.pid )
  => MeasurementStored

\* no line of the stream is a well-formed drm-client-id line
NoValidClientId ==
  \A i \in 1..Len(call.lines) :
    ~(call.lines[i].name = client_id /\ ValueMatchesKey(call.lines[i]))

(***************************************************************************)
(* C35  A stream without a valid client-id line has no cache effect: the   *)
(* call leaves both generations of the engine cache unchanged and derives  *)
(* no usage from nanosecond counters; the record holds only raw counters,  *)
(* the memory and the legacy percentages, each usage field being the sum   *)
(* of the legacy lines that feed it.                                       *)
(***************************************************************************)
C35_NoClientIdNoCacheEffect ==
  (IsParse /\ NoValidClientId) =>
    /\ EngineCaches(gpu_infos[1]) = EngineCaches(call.before)
    /\ call.ret =>
         /\ call.process_info.valid
              \subseteq EngineFields \cup {"gpu_memory_usage", "gpu_usage", "encode_usage",
                                           "decode_usage"}
         /\ \A uk \in LegacyKeys :
              IF \E i \in 1..Len(call.lines) : WellFormedLegacy(call.lines[i], uk[2])
                THEN /\ uk[1] \in call.process_info.valid
                     /\ call.process_info[uk[1]] = SumLegacy(call.lines, uk[2])
                ELSE uk[1] \notin call.process_info.valid

\* "drm-client-id: 5x" and a gfx counter, while the previous generation
\* holds the entry of client 5: the counter is recorded and no usage derived
C35_Witness ==
  /\ IsParse /\ call.ret
  /\ call.lines = <<Line(client_id, "", 5, "x"), L_ns(gfx_new, 1500)>>
  /\ HASH_FIND_CLIENT(call.before.last_update_process_cache,
                      [client_id |-> 5, pid |-> call.pid]) # 0
  /\ gpu_infos[1].last_update_process_cache = call.before.last_update_process_cache
  /\ call.process_info.gfx_engine_used = 1500
  /\ "gpu_usage" \notin call.process_info.valid

(***************************************************************************)
(* C36  When both the gfx and the compute deltas pass their gates in one   *)
(* parse, the record's gpu_usage after the parse is the compute-engine     *)
(* percentage alone: the gfx percentage and the legacy percentage the      *)
(* lines of the stream accumulated are overwritten, not added.             *)
(***************************************************************************)
C36_ComputeOverwritesGfx ==
  (/\ IsParse /\ RepeatKey /\ CallElapsed > 0
   /\ WellBehaved("gfx_engine_used") /\ WellBehaved("compute_engine_used")) =>
    /\ GPUINFO_PROCESS_FIELD_VALID(call.process_info, "gpu_usage")
    /\ call.process_info.gpu_usage =
         busy_usage_from_time_usage_round(CallLoop.process_info.compute_engine_used,
                                          CallEntry.compute_engine_used, CallElapsed)

\* a legacy gfx line of 30 percent, a gfx counter grown by 600 ns and a
\* compute counter grown by 500 ns in 1000 ns: 50, neither 60 nor a sum
C36_Witness ==
  /\ IsParse /\ RepeatKey
  /\ CallElapsed = 1000
  /\ CallLoop.process_info.gpu_usage = 30
  /\ WellBehaved("gfx_engine_used") /\ RoundedBusyPercent("gfx_engine_used") = 60
  /\ WellBehaved("compute_engine_used") /\ RoundedBusyPercent("compute_engine_used") = 50
  /\ call.process_info.gpu_usage = 50

\* the j-th record of the call got a CPU% computed from a delta: a sample
\* was obtained and the entry found for the pid has a valid sentinel
CpuDelta(j) == call.inputs[j].sample.ok /\ ValidSentinelBefore(j)

\* the CPU% of the j-th record is the rounded share of the window between
\* the sample of entry e and the sample of the call
CpuPercentAgainst(j, e) ==
  Enriched(j).cpu_usage =
    CpuUsagePercent(call.inputs[j].sample.total - e.last_total_consumed_cpu_time,
                    call.inputs[j].sample.timestamp - e.last_measurement_timestamp,
                    call.inputs[j].ub)

(***************************************************************************)
(* C37  CPU% window with a pid on several devices: the CPU% reported for   *)
(* a pid on each device is computed against the sample cached at the       *)
(* previous cycle, taken before this cycle began, not against a sample     *)
(* taken while enriching another device in the same cycle.                 *)
(***************************************************************************)
C37_CpuWindowIsPreviousCycle ==
  IsPopulate =>
    \A j \in 1..Len(call.processes) :
      CpuDelta(j) =>
        \A e \in KnownBefore(j) :
          /\ CpuPercentAgainst(j, e)
          /\ e.last_measurement_timestamp <= now

\* C37 for the first device of the cycle that lists the pid: the entry comes
\* from cached_process_info and its sample is the one of the previous cycle
C37_FirstDeviceWindow ==
  IsPopulate =>
    \A j \in 1..Len(call.processes) :
      (CpuDelta(j) /\ HASH_FIND_PID(call.updated, call.processes[j].pid) = {}) =>
        \A e \in KnownBefore(j) :
          /\ e \in call.cached
          /\ CpuPercentAgainst(j, e)
          /\ e.last_measurement_timestamp <= now

\* pid 1 is on both devices; the second device finds the entry the first
\* device has just sampled
C37_SecondDeviceWitness ==
  /\ IsPopulate /\ call.device = 2
  /\ \E j \in 1..Len(call.processes) :
       /\ call.processes[j].pid = 1
       /\ CpuDelta(j)
       /\ \E e \in HASH_FIND_PID(call.updated, 1) :
            /\ e.last_measurement_timestamp = now + 1
            /\ e.last_total_consumed_cpu_time = 100
            /\ call.inputs[j].sample.total = 150
            /\ Enriched(j).cpu_usage = 5000

(***************************************************************************)
(* The file-scope state of the amdgpu backend (libdrm_handle,              *)
(* libdrm_amdgpu_handle, gpu_infos, amdgpu_count) from                     *)
(* gpuinfo_init_info_extraction to gpuinfo_shutdown_info_extraction.  live *)
(* holds what is open or allocated, twice what was released when it was    *)
(* not.  A pointer is TRUE when it is set.                                 *)
(***************************************************************************)
StaticsAtLoad ==
  [libdrm_handle |-> FALSE, libdrm_amdgpu_handle |-> FALSE, gpu_infos |-> FALSE,
   amdgpu_count |-> 0, devices |-> <<>>, live |-> {}, twice |-> {}]

\* dlclose or free of a resource
Release(S, res) ==
  IF res \in S.live THEN [S EXCEPT !.live = @ \ {res}]
  ELSE [S EXCEPT !.twice = @ \cup {res}]

\* gpuinfo_amdgpu_init on the file-scope state
InitStatics(S, dl) ==
  LET i == gpuinfo_amdgpu_init(dl)
  IN  [S EXCEPT !.libdrm_handle = i.libdrm_handle,
                !.libdrm_amdgpu_handle = IF i.ret THEN i.libdrm_amdgpu_handle ELSE @,
                !.live = IF i.ret
                           THEN @ \cup {"libdrm"}
                                  \cup (IF i.libdrm_amdgpu_handle THEN {"libdrm_amdgpu"} ELSE {})
                           ELSE @]

\* gpuinfo_amdgpu_get_device_handles on the file-scope state: the array is
\* allocated whenever the call returns true
EnumStatics(S, r) ==
  IF ~r.ret THEN S
  ELSE [S EXCEPT !.gpu_infos = TRUE, !.amdgpu_count = r.amdgpu_count,
                 !.devices = RegisteredDevices(r), !.live = @ \cup {"gpu_infos"}]

\* gpuinfo_amdgpu_shutdown that leaves libdrm_handle as it was after dlclose
ShutdownStatics_KeepsHandle(S) ==
  LET s1 == IF S.gpu_infos THEN Release(S, "gpu_infos") ELSE S
      s2 == [s1 EXCEPT !.gpu_infos = FALSE, !.amdgpu_count = 0,
                       !.devices = gpuinfo_amdgpu_shutdown(S.devices).gpu_infos]
      s3 == IF s2.libdrm_handle THEN Release(s2, "libdrm") ELSE s2
  IN  IF s3.libdrm_amdgpu_handle
        THEN [Release(s3, "libdrm_amdgpu") EXCEPT !.libdrm_amdgpu_handle = FALSE]
        ELSE s3

\* gpuinfo_amdgpu_shutdown on the file-scope state: the loop over the
\* amdgpu_count devices, free(gpu_infos) (free(NULL) does nothing), and
\* dlclose of each handle that is set
ShutdownStatics(S) ==
  LET s1 == IF S.gpu_infos THEN Release(S, "gpu_infos") ELSE S
      s2 == [s1 EXCEPT !.gpu_infos = FALSE, !.amdgpu_count = 0,
                       !.devices = gpuinfo_amdgpu_shutdown(S.devices).gpu_infos]
      s3 == IF s2.libdrm_handle
              THEN [Release(s2, "libdrm") EXCEPT !.libdrm_handle = FALSE]
              ELSE s2
  IN  IF s3.libdrm_amdgpu_handle
        THEN [Release(s3, "libdrm_amdgpu") EXCEPT !.libdrm_amdgpu_handle = FALSE]
        ELSE s3

\* the body of the loop of gpuinfo_init_info_extraction for the amdgpu
\* vendor, on the file-scope state
InitExtractionStatics(S, env, mask) ==
  LET s1 == InitStatics(S, env.dl)
      r == gpuinfo_amdgpu_get_device_handles(env.devs, 0, mask, s1.libdrm_handle,
                                             s1.libdrm_amdgpu_handle, env.calloc_ok)
      s2 == EnumStatics(s1, r)
  IN  IF ~gpuinfo_amdgpu_init(env.dl).ret
        THEN [statics |-> s1, init_ok |-> FALSE, shut_down |-> FALSE]
      ELSE IF ~r.ret \/ r.count = 0
        THEN [statics |-> ShutdownStatics(s2), init_ok |-> TRUE, shut_down |-> TRUE]
      ELSE [statics |-> s2, init_ok |-> TRUE, shut_down |-> FALSE]

VendorEnvs == [dl : [libdrm : BOOLEAN, symbols : BOOLEAN, libdrm_amdgpu : BOOLEAN],
               devs : InitHosts, calloc_ok : BOOLEAN]

VendorInit ==
  /\ IdentityIdle
  /\ pc = "init"
  /\ now = 0
  /\ gpu_infos = <<>>
  /\ call = [op |-> "load", statics |-> StaticsAtLoad]

\* main calls gpuinfo_init_info_extraction
VendorInitCall ==
  /\ pc = "init"
  /\ \E env \in VendorEnvs, mask \in {-1, 0} :
       \E r \in {InitExtractionStatics(call.statics, env, mask)} :
         /\ gpu_infos' = r.statics.devices
         /\ call' = [op |-> "vendor_init", env |-> env, mask_in |-> mask,
                     init_ok |-> r.init_ok, shut_down |-> r.shut_down,
                     statics |-> r.statics]
  /\ pc' = "initialized"
  /\ UNCHANGED <<now, identityVars>>

\* main calls gpuinfo_shutdown_info_extraction: the devices leave the list
\* and the shutdown of every vendor is called
VendorShutdownCall ==
  /\ pc = "initialized"
  /\ \E S \in {ShutdownStatics(call.statics)} :
       /\ gpu_infos' = S.devices
       /\ call' = [op |-> "vendor_shutdown", env |-> call.env, init_ok |-> call.init_ok,
                   shut_down |-> call.shut_down, before |-> call.statics, statics |-> S]
  /\ pc' = "shutdown"
  /\ UNCHANGED <<now, identityVars>>

VendorNext == VendorInitCall \/ VendorShutdownCall

VendorSpec == VendorInit /\ [][VendorNext]_vars

\* the backend holds nothing: no device, no array, no library handle
VendorUnset(S) ==
  /\ S.amdgpu_count = 0
  /\ S.devices = <<>>
  /\ ~S.gpu_infos
  /\ ~S.libdrm_handle
  /\ ~S.libdrm_amdgpu_handle

(***************************************************************************)
(* C38  Vendor shutdown is idempotent and safe in every vendor state:      *)
(* gpuinfo_amdgpu_shutdown called when init failed, when no device was     *)
(* registered, or a second time after gpuinfo_init_info_extraction already *)
(* shut the vendor down, releases nothing twice and leaves the device      *)
(* count 0, the device array unset and the library handles unset; a second *)
(* shutdown releases nothing at all.                                       *)
(***************************************************************************)
C38_ShutdownIdempotent ==
  /\ call.op \in {"vendor_init", "vendor_shutdown"} => call.statics.twice = {}
  /\ (call.op = "vendor_init" /\ call.shut_down) => VendorUnset(call.statics)
  /\ call.op = "vendor_shutdown" =>
       /\ VendorUnset(call.statics)
       /\ call.statics.live = {}
       /\ (call.shut_down \/ ~call.init_ok) => call.statics.live = call.before.live

\* libdrm and libdrm_amdgpu were loaded and the only device of the host is
\* not an amdgpu device: the initialization shut the vendor down, freeing
\* the array and closing both libraries, and the shutdown of the extraction
\* called it again
C38_Witness ==
  /\ call.op = "vendor_shutdown"
  /\ call.init_ok /\ call.shut_down
  /\ call.env.dl.libdrm_amdgpu
  /\ Len(call.env.devs) = 1 /\ call.env.calloc_ok
  /\ VendorUnset(call.before) /\ call.before.live = {}
  /\ VendorUnset(call.statics) /\ call.statics.twice = {}

\* gpuinfo_amdgpu_init failed on a host without libdrm and the shutdown of
\* the extraction is the first call of the vendor's shutdown
C38_InitFailedWitness ==
  /\ call.op = "vendor_shutdown"
  /\ ~call.init_ok /\ ~call.shut_down
  /\ ~call.env.dl.libdrm
  /\ VendorUnset(call.statics) /\ call.statics.twice = {}

(***************************************************************************)
(* interface_options.c: the process list options read from the            *)
(* configuration file                                                      *)
(***************************************************************************)
\* enum process_field, in the order of process_sortby_vals
process_pid == 0
process_user == 1
process_gpu_id == 2
process_type == 3
process_gpu_rate == 4
process_enc_rate == 5
process_dec_rate == 6
process_memory == 7
process_cpu_usage == 8
process_cpu_mem_usage == 9
process_command == 10
process_field_count == 11

\* process_sortby_vals[i] is element i + 1
process_sortby_vals ==
  <<"pId", "user", "gpuId", "type", "gpuRate", "encRate", "decRate", "memory", "cpuUsage",
    "cpuMem", "cmdline", "none">>

process_list_section == "ProcessListOption"
chart_section == "ChartOption"
process_value_sortby == "SortBy"
process_value_display_field == "DisplayField"
process_value_sort_order == "SortOrder"

\* (fields_displayed & (1 << field)) > 0
process_is_field_displayed(field, fields_displayed) ==
  (fields_displayed \div 2^field) % 2 = 1

\* fields_displayed | (1 << field)
process_add_field_to_display(field, fields_displayed) ==
  IF process_is_field_displayed(field, fields_displayed) THEN fields_displayed
  ELSE fields_displayed + 2^field

\* process_default_sort_by_from that looks for the pid column first
process_default_sort_by_from_PidFirst(fields_displayed) ==
  IF process_is_field_displayed(process_pid, fields_displayed) THEN process_pid
  ELSE IF process_is_field_displayed(process_memory, fields_displayed) THEN process_memory
  ELSE IF process_is_field_displayed(process_cpu_mem_usage, fields_displayed)
    THEN process_cpu_mem_usage
  ELSE IF process_is_field_displayed(process_gpu_rate, fields_displayed) THEN process_gpu_rate
  ELSE IF process_is_field_displayed(process_cpu_usage, fields_displayed)
    THEN process_cpu_usage
  ELSE IF process_is_field_displayed(process_command, fields_displayed) THEN process_command
  ELSE IF process_is_field_displayed(process_type, fields_displayed) THEN process_type
  ELSE IF process_is_field_displayed(process_enc_rate, fields_displayed) THEN process_enc_rate
  ELSE IF process_is_field_displayed(process_dec_rate, fields_displayed) THEN process_dec_rate
  ELSE IF process_is_field_displayed(process_user, fields_displayed) THEN process_user
  ELSE IF process_is_field_displayed(process_gpu_id, fields_displayed) THEN process_gpu_id
  ELSE process_field_count

\* process_default_sort_by_from(fields_displayed)
process_default_sort_by_from(fields_displayed) ==
  IF process_is_field_displayed(process_memory, fields_displayed) THEN process_memory
  ELSE IF process_is_field_displayed(process_cpu_mem_usage, fields_displayed)
    THEN process_cpu_mem_usage
  ELSE IF process_is_field_displayed(process_gpu_rate, fields_displayed) THEN process_gpu_rate
  ELSE IF process_is_field_displayed(process_cpu_usage, fields_displayed)
    THEN process_cpu_usage
  ELSE IF process_is_field_displayed(process_command, fields_displayed) THEN process_command
  ELSE IF process_is_field_displayed(process_type, fields_displayed) THEN process_type
  ELSE IF process_is_field_displayed(process_enc_rate, fields_displayed) THEN process_enc_rate
  ELSE IF process_is_field_displayed(process_dec_rate, fields_displayed) THEN process_dec_rate
  ELSE IF process_is_field_displayed(process_user, fields_displayed) THEN process_user
  ELSE IF process_is_field_displayed(process_gpu_id, fields_displayed) THEN process_gpu_id
  ELSE IF process_is_field_displayed(process_pid, fields_displayed) THEN process_pid
  ELSE process_field_count

\* the process list options as alloc_interface_options_internals sets them
DefaultOptions ==
  [sort_processes_by |-> process_memory, sort_descending_order |-> TRUE,
   process_fields_displayed |-> 0]

\* the fields below limit whose name in process_sortby_vals is the value
FieldsNamed(value, limit) == {i \in 0..(limit - 1) : process_sortby_vals[i + 1] = value}

\* the loop of the DisplayField branch: each field of 0..process_field_count
\* whose name is the value is added, and process_field_count with it
RECURSIVE AddDisplayFields(_, _, _)
AddDisplayFields(fields_displayed, value, i) ==
  IF i > process_field_count THEN fields_displayed
  ELSE AddDisplayFields(
         IF process_sortby_vals[i + 1] = value
           THEN process_add_field_to_display(process_field_count,
                  process_add_field_to_display(i, fields_displayed))
           ELSE fields_displayed,
         value, i + 1)

\* nvtop_option_ini_handler for one name = value pair of a section, as far
\* as the process list options go
nvtop_option_ini_handler(options, e) ==
  IF e.section # process_list_section THEN options
  ELSE IF e.name = process_value_sortby
    THEN IF FieldsNamed(e.value, process_field_count) = {} THEN options
         ELSE [options EXCEPT !.sort_processes_by =
                 CHOOSE i \in FieldsNamed(e.value, process_field_count) :
                   \A k \in FieldsNamed(e.value, process_field_count) : k <= i]
  ELSE IF e.name = process_value_display_field
    THEN [options EXCEPT !.process_fields_displayed = AddDisplayFields(@, e.value, 0)]
  ELSE IF e.name = process_value_sort_order
    THEN IF e.value = "descending" THEN [options EXCEPT !.sort_descending_order = TRUE]
         ELSE IF e.value = "ascending" THEN [options EXCEPT !.sort_descending_order = FALSE]
         ELSE options
  ELSE options

\* ini_parse_file: the handler is called for each pair of the file in order
RECURSIVE ini_parse_file(_, _, _)
ini_parse_file(entries, i, options) ==
  IF i > Len(entries) THEN options
  ELSE ini_parse_file(entries, i + 1, nvtop_option_ini_handler(options, entries[i]))

NoFile == [opened |-> FALSE, entries |-> <<>>]

\* load_interface_options_from_config_file(num_devices, options)
load_interface_options_from_config_file(file, options) ==
  IF ~file.opened THEN [ret |-> FALSE, options |-> options]
  ELSE LET o == ini_parse_file(file.entries, 1, options)
       IN  [ret |-> TRUE,
            options |->
              IF ~process_is_field_displayed(o.sort_processes_by, o.process_fields_displayed)
                THEN [o EXCEPT !.sort_processes_by =
                                 process_default_sort_by_from(o.process_fields_displayed)]
                ELSE o]

Entry(section, name, value) == [section |-> section, name |-> name, value |-> value]

\* one DisplayField line for each field of D, in the order of the enum
RECURSIVE DisplayEntries(_, _)
DisplayEntries(D, i) ==
  IF i > process_field_count THEN <<>>
  ELSE (IF i \in D
          THEN <<Entry(process_list_section, process_value_display_field,
                       process_sortby_vals[i + 1])>>
          ELSE <<>>) \o DisplayEntries(D, i + 1)

\* no SortBy line, or one of a field name, of "none" or of a name nvtop
\* does not know, or one in another section
SortByEntries ==
  {<<>>, <<Entry(chart_section, process_value_sortby, "pId")>>}
    \cup {<<Entry(process_list_section, process_value_sortby, v)>> :
            v \in {process_sortby_vals[k] : k \in 1..Len(process_sortby_vals)} \cup {"Memory"}}

\* the configuration files: an optional SortBy line, then DisplayField lines
\* for any set of field names, "none" included
ConfigFiles ==
  {[opened |-> TRUE, entries |-> sb \o DisplayEntries(D, 0)] :
     sb \in SortByEntries, D \in SUBSET (0..process_field_count)}

OptionsInit ==
  /\ IdentityIdle
  /\ pc = "options"
  /\ now = 0
  /\ gpu_infos = <<>>
  /\ call = [op |-> "alloc_options", options |-> DefaultOptions]

\* main calls load_interface_options_from_config_file
OptionsLoad ==
  /\ pc = "options"
  /\ \E file \in ConfigFiles \cup {NoFile} :
       \E r \in {load_interface_options_from_config_file(file, call.options)} :
         call' = [op |-> "load_options", file |-> file, ret |-> r.ret, options |-> r.options]
  /\ pc' = "loaded"
  /\ UNCHANGED <<now, gpu_infos, identityVars>>

OptionsNext == OptionsLoad

OptionsSpec == OptionsInit /\ [][OptionsNext]_vars

IsLoad == call.op = "load_options" /\ call.file.opened

\* the process fields the DisplayField lines of the file name
DisplayedInFile ==
  {f \in 0..(process_field_count - 1) :
     \E i \in 1..Len(call.file.entries) :
       call.file.entries[i] = Entry(process_list_section, process_value_display_field,
                                    process_sortby_vals[f + 1])}

\* the field the file asks to sort by: the one its SortBy line names, the
\* default without such a line
ConfiguredSortBy ==
  LET named == {f \in 0..(process_field_count - 1) :
                  \E i \in 1..Len(call.file.entries) :
                    call.file.entries[i] = Entry(process_list_section, process_value_sortby,
                                                 process_sortby_vals[f + 1])}
  IN  IF named = {} THEN DefaultOptions.sort_processes_by ELSE CHOOSE f \in named : TRUE

\* memory, cpu-mem, gpu-rate, cpu-usage, command, type, enc-rate, dec-rate,
\* user, gpu-id, pid
SortPriority ==
  <<process_memory, process_cpu_mem_usage, process_gpu_rate, process_cpu_usage,
    process_command, process_type, process_enc_rate, process_dec_rate, process_user,
    process_gpu_id, process_pid>>

FirstInPriority(D) ==
  SortPriority[CHOOSE k \in 1..Len(SortPriority) :
                 /\ SortPriority[k] \in D
                 /\ \A j \in 1..(k - 1) : SortPriority[j] \notin D]

(***************************************************************************)
(* C39  After load_interface_options_from_config_file, for every set of    *)
(* DisplayField and SortBy entries in the file, sort_processes_by is one   *)
(* of the displayed process fields, or process_field_count when no process *)
(* field is displayed; a configured sort field that is displayed is kept,  *)
(* and one that is not displayed is replaced by the first displayed field  *)
(* in the order memory, cpu-mem, gpu-rate, cpu-usage, command, type,       *)
(* enc-rate, dec-rate, user, gpu-id, pid.                                  *)
(***************************************************************************)
C39_SortFieldIsDisplayed ==
  IsLoad =>
    /\ \A f \in 0..(process_field_count - 1) :
         process_is_field_displayed(f, call.options.process_fields_displayed)
           <=> f \in DisplayedInFile
    /\ IF DisplayedInFile = {} THEN call.options.sort_processes_by = process_field_count
       ELSE IF ConfiguredSortBy \in DisplayedInFile
         THEN call.options.sort_processes_by = ConfiguredSortBy
       ELSE call.options.sort_processes_by = FirstInPriority(DisplayedInFile)

\* the file asks to sort by memory and displays pId, encRate and cmdline:
\* the processes are sorted by command
C39_Witness ==
  /\ IsLoad
  /\ ConfiguredSortBy = process_memory
  /\ DisplayedInFile = {process_pid, process_enc_rate, process_command}
  /\ call.options.sort_processes_by = process_command

\* the file displays no process field ("DisplayField = none")
C39_NoFieldWitness ==
  /\ IsLoad
  /\ call.file.entries = <<Entry(process_list_section, process_value_display_field, "none")>>
  /\ call.options.sort_processes_by = process_field_count

====
